---- MODULE Spec2Model ----
(***************************************************************************)
(* ChangeX Neurix front end: the API client (NeurixAPI: request,          *)
(* handleError, getWithCache, retry) and the service worker                *)
(* (handleApiRequest, the fetch and sync listeners, syncPendingRequests).  *)
(*                                                                         *)
(* Each subsystem has its own specification over the shared variables:     *)
(*   SpecRequest  concurrent NeurixAPI.request() calls                     *)
(*   SpecCache    NeurixAPI.getWithCache() over request(), with the clock  *)
(*   SpecRetry    NeurixAPI.retry()                                        *)
(*   SpecSW       the service worker's API fetch handling                  *)
(*   SpecSync     the service worker's deferred-request replay             *)
(*   SpecOffline  writes issued while the client is offline                *)
(*   SpecNav      the service worker's page navigation handling            *)
(*   SpecClient   NeurixAPI's token, default headers and interceptors      *)
(*   SpecLimit    request() calls answered with rate-limit headers         *)
(*   SpecLedger   the request ledger and its hourly cleanup                *)
(*   SpecFailure  request() and getWithCache() calls whose fetch fails     *)
(*   SpecQueue    NeurixAPI.enqueue() and processQueue()                   *)
(*   SpecQueueLive  SpecQueue with the fairness of its awaited steps       *)
(*   SpecActivate the service worker's activate listener                   *)
(*   SpecAuth     NeurixApp.login() and logout()                           *)
(*   SpecBatch    NeurixAPI.batch()                                        *)
(***************************************************************************)
EXTENDS Integers, Sequences, FiniteSets, TLC

VARIABLES
    onTokenExpired,      \* NeurixAPI.onTokenExpired is configured
    onRateLimitExceeded, \* NeurixAPI.onRateLimitExceeded is configured
    online,              \* navigator.onLine
    now,                 \* Date.now(), in ms
    localStorage,        \* api_cache_<endpoint> entries of localStorage
    calls,               \* the request()/getWithCache() calls of the client
    retryCall,           \* the retry() call
    apiCache,            \* the service worker's API_CACHE_NAME cache
    swReqs,              \* the handleApiRequest() invocations
    store,               \* IndexedDB object store 'pendingRequests'
    nextId,              \* the store's autoIncrement key generator
    runs,                \* the syncPendingRequests() invocations
    writes,              \* non-GET fetch events seen by the fetch listener
    delivered,           \* ids of the records whose replay returned ok
    pageCache,           \* the service worker's CACHE_NAME cache
    navReqs,             \* the handlePageNavigation() invocations
    token,               \* NeurixAPI.token
    defaultHeaders,      \* NeurixAPI.defaultHeaders
    interceptors,        \* NeurixAPI.interceptors
    send,                \* a request() call followed through its interceptors
    queue,               \* NeurixAPI.queue
    isProcessingQueue,   \* NeurixAPI.isProcessingQueue
    loops,               \* the processQueue() invocations past their guard
    promises,            \* the promises returned by enqueue()
    started,             \* the queued requests in the order they were started
    delayed,             \* the queued requests whose delay(100) has elapsed
    served,              \* the outcome of request() for each queued request
    cacheNames,          \* the names of the caches in CacheStorage
    activation,          \* the service worker's activate step
    state,               \* NeurixApp.state: token and user
    tokenItem,           \* the 'token' entry of the page's localStorage
    login,               \* the NeurixApp.login() call
    logout,              \* the NeurixApp.logout() call
    batch                \* the NeurixAPI.batch() call

vars == <<onTokenExpired, onRateLimitExceeded, online, now, localStorage,
          calls, retryCall, apiCache, swReqs, store, nextId, runs, writes,
          delivered, pageCache, navReqs, token, defaultHeaders, interceptors,
          send, queue, isProcessingQueue, loops, promises, started, delayed,
          served, cacheNames, activation, state, tokenItem, login, logout,
          batch>>

apiVars   == <<onTokenExpired, onRateLimitExceeded, localStorage, calls>>
retryVars == <<retryCall>>
swVars    == <<apiCache, swReqs>>
syncVars  == <<store, nextId, runs, writes, delivered>>
navVars   == <<pageCache, navReqs>>
clientVars == <<token, defaultHeaders, interceptors, send>>
queueVars == <<queue, isProcessingQueue, loops, promises, started, delayed,
               served>>

\* the variables of the subsystems added to the first five
activateVars == <<cacheNames, activation>>
\* the variables of the subsystems added last
appVars   == <<state, tokenItem, login, logout>>
batchVars == <<batch>>
lateVars  == <<activateVars, appVars, batchVars>>
moreVars  == <<navVars, clientVars, queueVars, lateVars>>
\* the variables of the first five subsystems and the environment
coreVars  == <<online, now, apiVars, retryVars, swVars, syncVars>>

-----------------------------------------------------------------------------
(* Bounds of the model *)

MaxCalls == 2        \* concurrent request() calls
MaxEpochs == 1       \* the clock is observed around 0 .. MaxEpochs cache lifetimes
MaxRetries == 3      \* largest maxRetries argument of retry()
MaxSWReqs == 2       \* concurrent handleApiRequest() invocations
MaxSyncRuns == 2     \* concurrent syncPendingRequests() invocations
MaxPending == 2      \* records ever put into the pendingRequests store
MaxWrites == 1       \* non-GET requests issued while offline
MaxNavReqs == 2      \* concurrent handlePageNavigation() invocations
MaxInterceptors == 2 \* interceptors registered of each kind
MaxQueued == 3       \* requests ever submitted through enqueue()
MaxOldCaches == 3    \* caches left behind by earlier versions of the worker
MaxBatch == 3        \* longest requests argument of batch()

(* Program constants *)

DefaultTtl == 300000             \* getWithCache(endpoint, ttl = 300000)
FreshMs == 5 * 60 * 1000         \* handleApiRequest: cacheAge < 5 * 60 * 1000
NoStatus == 0                    \* an Error without a status property
oneHour == 3600000               \* cleanupOldRequests: const oneHour = 3600000
WarnBelow == 10                  \* request(): parseInt(remaining) < 10
NoRemaining == -1                \* a response without X-RateLimit-Remaining

Calls == 1 .. MaxCalls
Endpoints == {"/models", "/devices"}
Statuses == {200, 401, 403, 429, 500, 501}    \* the statuses the backend answers with
Messages == {"", "quota exceeded"}       \* data.message of a JSON body; "" is absent
Payloads == {"p1", "p2"}

\* the instants at which the clock is read: each cache lifetime and 1 ms around it
ClockValues ==
    {t \in {k * FreshMs + d : k \in 0 .. MaxEpochs, d \in {-1, 0, 1}} : t >= 0}

-----------------------------------------------------------------------------
(* Values *)

NoData == [kind |-> "none", message |-> "", payload |-> ""]

NoResponse ==
    [threw |-> FALSE, status |-> NoStatus, ctype |-> "none", message |-> "",
     payload |-> "", parseOk |-> TRUE, remaining |-> NoRemaining]

\* what fetch() can produce: a rejection, or a response of some status with
\* a JSON body (with or without a message property), a body announced as
\* JSON that json() cannot parse, or a text body
Responses ==
    {[NoResponse EXCEPT !.threw = TRUE]}
    \cup {[threw |-> FALSE, status |-> s, ctype |-> "json", message |-> m,
           payload |-> "p1", parseOk |-> TRUE,
           remaining |-> NoRemaining] : s \in Statuses, m \in Messages}
    \cup {[threw |-> FALSE, status |-> s, ctype |-> "json", message |-> "",
           payload |-> "", parseOk |-> FALSE,
           remaining |-> NoRemaining] : s \in Statuses}
    \cup {[threw |-> FALSE, status |-> s, ctype |-> "text", message |-> "",
           payload |-> "p2", parseOk |-> TRUE,
           remaining |-> NoRemaining] : s \in Statuses}

NoResult ==
    [kind |-> "none", status |-> NoStatus, message |-> "", data |-> NoData,
     cached |-> FALSE, offline |-> FALSE]

NoEntry == [present |-> FALSE, data |-> NoData, timestamp |-> 0]

\* this.requests[requestId] of a call: absent, or its status and timestamp
NoLedgerEntry == [present |-> FALSE, status |-> "none", timestamp |-> 0]

\* a call: fetches counts its fetch() invocations, warned its
\* handleRateLimitWarning() invocations, entry is its ledger entry
IdleCall ==
    [pc |-> "idle", op |-> "none", method |-> "GET", endpoint |-> "/models",
     cached |-> NoEntry, resp |-> NoResponse, onLine |-> TRUE,
     expired |-> 0, limited |-> 0, result |-> NoResult,
     fetches |-> 0, warned |-> 0, entry |-> NoLedgerEntry]

-----------------------------------------------------------------------------
(* NeurixAPI.request and NeurixAPI.handleError *)

\* response.ok
ok(status) == status >= 200 /\ status <= 299

\* request(): the body is parsed by content type (json / text / blob)
parseBody(resp) ==
    [kind |-> resp.ctype,
     message |-> IF resp.ctype = "json" THEN resp.message ELSE "",
     payload |-> resp.payload]

\* handleError(): the message of the error thrown for a non-ok response
handleErrorMessage(status, data) ==
    CASE status = 403 -> "You do not have permission to perform this action"
      [] status = 404 -> "The requested resource was not found"
      [] status = 422 -> "Validation failed"
      [] status = 429 -> "Rate limit exceeded. Please try again later."
      [] status = 500 -> "Internal server error. Please try again later."
      [] status \in {502, 503, 504} ->
             "Service temporarily unavailable. Please try again later."
      [] OTHER -> IF data.message # "" THEN data.message
                  ELSE "HTTP " \o ToString(status)

\* handleError(): the number of onTokenExpired() invocations it makes
handleErrorExpired(status, configured) ==
    IF status = 401 /\ configured THEN 1 ELSE 0

\* handleError(): the number of onRateLimitExceeded() invocations it makes
handleErrorLimited(status, configured) ==
    IF status = 429 /\ configured THEN 1 ELSE 0

\* handleError(): always throws; the error and the callbacks invoked
handleError(status, data) ==
    [error |-> [kind |-> "rejected", status |-> status,
                message |-> handleErrorMessage(status, data), data |-> data,
                cached |-> FALSE, offline |-> FALSE],
     expired |-> handleErrorExpired(status, onTokenExpired),
     limited |-> handleErrorLimited(status, onRateLimitExceeded)]

\* variant: the catch block does not rethrow, the call resolves with nothing
requestCatchSilent(error, onLine) ==
    [kind |-> "resolved", status |-> NoStatus, message |-> "",
     data |-> NoData, cached |-> FALSE, offline |-> FALSE]

\* request(): the catch block rethrows, replacing the error when offline
requestCatch(error, onLine) ==
    IF ~onLine
    THEN [kind |-> "rejected", status |-> NoStatus,
          message |-> "Network connection lost. Please check your internet connection.",
          data |-> NoData, cached |-> FALSE, offline |-> FALSE]
    ELSE error

thrown(message) ==
    [kind |-> "rejected", status |-> NoStatus, message |-> message,
     data |-> NoData, cached |-> FALSE, offline |-> FALSE]

\* request(): the number of handleRateLimitWarning() invocations for a
\* response whose X-RateLimit-Remaining header reads remaining
rateLimitWarning(remaining) ==
    IF remaining # NoRemaining /\ remaining < WarnBelow THEN 1 ELSE 0

\* cleanupOldRequests(): the entries older than one hour are deleted,
\* whatever their status
cleanupOldRequests(cs, t) ==
    [d \in DOMAIN cs |->
        IF cs[d].entry.present /\ t - cs[d].entry.timestamp > oneHour
        THEN [cs[d] EXCEPT !.entry = NoLedgerEntry]
        ELSE cs[d]]

\* variant: the catch block leaves the status the try block had reached
catchStatusKept(reached) == reached

\* request(): the catch block marks the entry, whatever status it had reached
catchStatus(reached) == "failed"

\* request(): everything after fetch() has settled with resp; tracked says
\* that this.requests[requestId] still exists. Without the entry both
\* the status update of the try block and the one of the catch block throw
\* a TypeError.
requestSettle(resp, onLine, tracked) ==
    IF ~tracked
    THEN [result |-> thrown("TypeError"), status |-> "none",
          expired |-> 0, limited |-> 0, warned |-> 0]
    ELSE IF resp.threw
    THEN [result |-> requestCatch(thrown("Failed to fetch"), onLine),
          status |-> catchStatus("pending"),
          expired |-> 0, limited |-> 0, warned |-> 0]
    ELSE IF ~resp.parseOk
    THEN [result |-> requestCatch(thrown("SyntaxError"), onLine),
          status |-> catchStatus("pending"),
          expired |-> 0, limited |-> 0, warned |-> 0]
    ELSE IF ~ok(resp.status)
    THEN LET h == handleError(resp.status, parseBody(resp))
         IN  [result |-> requestCatch(h.error, onLine),
              status |-> catchStatus("completed"),
              expired |-> h.expired, limited |-> h.limited, warned |-> 0]
    ELSE [result |-> [kind |-> "resolved", status |-> resp.status,
                      message |-> "", data |-> parseBody(resp),
                      cached |-> FALSE, offline |-> FALSE],
          status |-> "completed", expired |-> 0, limited |-> 0,
          warned |-> rateLimitWarning(resp.remaining)]

\* request(): the ledger entry is written and fetch() is invoked once
requestStart(call, t) ==
    [call EXCEPT !.pc = "fetching", !.fetches = @ + 1,
                 !.entry = [present |-> TRUE, status |-> "pending",
                            timestamp |-> t]]

\* request(): the call ends with settlement s; the finally block cleans up
requestEnd(cs, c, resp, onLine, s, result, t) ==
    cleanupOldRequests(
        [cs EXCEPT ![c].pc = "done", ![c].resp = resp, ![c].onLine = onLine,
                   ![c].expired = s.expired, ![c].limited = s.limited,
                   ![c].warned = s.warned, ![c].result = result,
                   ![c].entry = IF @.present THEN [@ EXCEPT !.status = s.status]
                                ELSE @], t)

\* request(method, endpoint): up to the await of fetch()
Request(c, method, endpoint) ==
    /\ calls[c].pc = "idle"
    /\ calls' = [calls EXCEPT ![c] =
                    requestStart([IdleCall EXCEPT !.op = "request",
                                     !.method = method, !.endpoint = endpoint],
                                 now)]
    /\ UNCHANGED moreVars
    /\ UNCHANGED <<onTokenExpired, onRateLimitExceeded, localStorage, online,
                   now, retryVars, swVars, syncVars>>

\* request(): fetch() settles and the call runs to its end
RequestSettle(c, resp) ==
    /\ calls[c].pc = "fetching"
    /\ calls[c].op = "request"
    /\ LET s == requestSettle(resp, online, calls[c].entry.present)
       IN  calls' = requestEnd(calls, c, resp, online, s, s.result, now)
    /\ UNCHANGED moreVars
    /\ UNCHANGED <<onTokenExpired, onRateLimitExceeded, localStorage, online,
                   now, retryVars, swVars, syncVars>>

\* the caller has consumed the outcome of a settled call
Return(c) ==
    /\ calls[c].pc = "done"
    /\ calls' = [calls EXCEPT ![c] = IdleCall]
    /\ UNCHANGED moreVars
    /\ UNCHANGED <<onTokenExpired, onRateLimitExceeded, localStorage, online,
                   now, retryVars, swVars, syncVars>>

\* the browser's online / offline events
SetOnline(b) ==
    /\ online # b
    /\ online' = b
    /\ UNCHANGED moreVars
    /\ UNCHANGED <<now, apiVars, retryVars, swVars, syncVars>>

\* time passes
Tick(t) ==
    /\ t > now
    /\ now' = t
    /\ UNCHANGED moreVars
    /\ UNCHANGED <<online, apiVars, retryVars, swVars, syncVars>>

-----------------------------------------------------------------------------
(* NeurixAPI.getWithCache *)

\* a response whose body is neither JSON nor text is read as a Blob
BlobResponses ==
    {[threw |-> FALSE, status |-> 200, ctype |-> "blob", message |-> "",
      payload |-> "p2", parseOk |-> TRUE, remaining |-> NoRemaining]}

\* JSON.parse(JSON.stringify(data)): objects and strings survive, a Blob
\* is written as {}
jsonRoundTrip(data) ==
    IF data.kind = "blob" THEN [kind |-> "json", message |-> "", payload |-> ""]
    ELSE data

\* getWithCache(): Date.now() - timestamp < ttl
fresh(entry, ttl, t) == entry.present /\ t - entry.timestamp < ttl

\* variant: falls back to the entry whatever navigator.onLine says
getWithCacheCatchAnyState(error, cached, onLine) ==
    IF cached.present
    THEN [kind |-> "resolved", status |-> NoStatus, message |-> "",
          data |-> cached.data, cached |-> TRUE, offline |-> TRUE]
    ELSE error

\* getWithCache(): the catch block falls back to the entry read at the start
getWithCacheCatch(error, cached, onLine) ==
    IF ~onLine /\ cached.present
    THEN [kind |-> "resolved", status |-> NoStatus, message |-> "",
          data |-> cached.data, cached |-> TRUE, offline |-> TRUE]
    ELSE error

\* getWithCache(endpoint, ttl): up to the cached return or the await of get()
GetWithCache(c, endpoint, ttl) ==
    /\ calls[c].pc = "idle"
    /\ LET cached == localStorage[endpoint]
       IN  calls' = [calls EXCEPT ![c] =
               IF fresh(cached, ttl, now)
               THEN [IdleCall EXCEPT
                       !.pc = "done", !.op = "getWithCache",
                       !.endpoint = endpoint, !.cached = cached,
                       !.onLine = online,
                       !.result = [kind |-> "resolved", status |-> NoStatus,
                                   message |-> "", data |-> cached.data,
                                   cached |-> TRUE, offline |-> FALSE]]
               ELSE requestStart([IdleCall EXCEPT
                       !.op = "getWithCache",
                       !.endpoint = endpoint, !.cached = cached], now)]
    /\ UNCHANGED moreVars
    /\ UNCHANGED <<onTokenExpired, onRateLimitExceeded, localStorage, online,
                   now, retryVars, swVars, syncVars>>

\* getWithCache(): get() settles; the result is stored, or the catch block runs
GetWithCacheSettle(c, resp) ==
    /\ calls[c].pc = "fetching"
    /\ calls[c].op = "getWithCache"
    /\ LET s == requestSettle(resp, online, calls[c].entry.present)
           e == calls[c].endpoint
       IN  IF s.result.kind = "resolved"
           THEN /\ localStorage' = [localStorage EXCEPT ![e] =
                       [present |-> TRUE,
                        data |-> jsonRoundTrip(s.result.data),
                        timestamp |-> now]]
                /\ calls' = requestEnd(calls, c, resp, online, s, s.result, now)
           ELSE /\ localStorage' = localStorage
                /\ calls' = requestEnd(calls, c, resp, online, s,
                       getWithCacheCatch(s.result, calls[c].cached, online),
                       now)
    /\ UNCHANGED moreVars
    /\ UNCHANGED <<onTokenExpired, onRateLimitExceeded, online, now,
                   retryVars, swVars, syncVars>>

-----------------------------------------------------------------------------
(* NeurixAPI.retry *)

\* the statuses of the errors requestFn rejects with; NoStatus is an error
\* without a status property (a network failure)
ErrorStatuses == {NoStatus, 400, 404, 429, 499, 500, 503}
Values == {"v1", "v2"}                    \* what requestFn resolves with
Delays == {1000, 250}                     \* delayMs arguments (default 1000)

NoError == [defined |-> FALSE, status |-> NoStatus, attempt |-> 0]

IdleRetry ==
    [pc |-> "idle", maxRetries |-> 0, delayMs |-> 0, i |-> 0,
     outcomes |-> <<>>, waits |-> <<>>, lastError |-> NoError,
     result |-> [kind |-> "none", value |-> "", error |-> NoError]]

\* Math.pow(2, i)
RECURSIVE pow2(_)
pow2(i) == IF i = 0 THEN 1 ELSE 2 * pow2(i - 1)

\* variant: 429 is not excepted
noRetryAny4xx(status) == status >= 400 /\ status < 500

\* retry(): error.status >= 400 && error.status < 500 && error.status !== 429
noRetry(status) == status >= 400 /\ status < 500 /\ status # 429

\* variant: linear instead of exponential backoff
backoffLinear(delayMs, i) == delayMs * (i + 1)

\* retry(): the argument of this.delay() after the failure of attempt i
backoff(delayMs, i) == delayMs * pow2(i)

\* variant: the loop test is i <= maxRetries
retryLoopInclusive(r, i) ==
    IF i <= r.maxRetries
    THEN [r EXCEPT !.pc = "attempt", !.i = i]
    ELSE [r EXCEPT !.pc = "done", !.i = i,
                   !.result = [kind |-> "rejected", value |-> "",
                               error |-> r.lastError]]

\* retry(): the loop test i < maxRetries, then the next attempt or the
\* final throw of lastError
retryLoop(r, i) ==
    IF i < r.maxRetries
    THEN [r EXCEPT !.pc = "attempt", !.i = i]
    ELSE [r EXCEPT !.pc = "done", !.i = i,
                   !.result = [kind |-> "rejected", value |-> "",
                               error |-> r.lastError]]

\* retry(): the catch block of a failed attempt
retryCatch(r, error) ==
    IF noRetry(error.status)
    THEN [r EXCEPT !.pc = "done", !.lastError = error,
                   !.result = [kind |-> "rejected", value |-> "",
                               error |-> error]]
    ELSE [r EXCEPT !.pc = "wait", !.lastError = error,
                   !.waits = Append(r.waits, backoff(r.delayMs, r.i))]

\* retry(requestFn, maxRetries, delayMs) is called
Retry(maxRetries, delayMs) ==
    /\ retryCall.pc = "idle"
    /\ retryCall' = retryLoop([IdleRetry EXCEPT !.maxRetries = maxRetries,
                                                !.delayMs = delayMs], 0)
    /\ UNCHANGED moreVars
    /\ UNCHANGED <<online, now, apiVars, swVars, syncVars>>

\* the awaited requestFn() resolves: retry() returns its value
RetryAttemptResolves(v) ==
    /\ retryCall.pc = "attempt"
    /\ retryCall' =
          [retryCall EXCEPT
             !.pc = "done",
             !.outcomes = Append(@, [ok |-> TRUE, value |-> v, error |-> NoError]),
             !.result = [kind |-> "resolved", value |-> v, error |-> NoError]]
    /\ UNCHANGED moreVars
    /\ UNCHANGED <<online, now, apiVars, swVars, syncVars>>

\* the awaited requestFn() rejects with an error of the given status
RetryAttemptRejects(status) ==
    /\ retryCall.pc = "attempt"
    /\ LET error == [defined |-> TRUE, status |-> status,
                     attempt |-> retryCall.i]
           r == [retryCall EXCEPT
                   !.outcomes = Append(@, [ok |-> FALSE, value |-> "",
                                           error |-> error])]
       IN  retryCall' = retryCatch(r, error)
    /\ UNCHANGED moreVars
    /\ UNCHANGED <<online, now, apiVars, swVars, syncVars>>

\* the backoff timer fires: i++ and the loop test
RetryDelayElapsed ==
    /\ retryCall.pc = "wait"
    /\ retryCall' = retryLoop(retryCall, retryCall.i + 1)
    /\ UNCHANGED moreVars
    /\ UNCHANGED <<online, now, apiVars, swVars, syncVars>>

-----------------------------------------------------------------------------
(* Service worker: the fetch listener and handleApiRequest *)

Urls == {"/api/v2/models"}               \* request.url, the cache key
NetStatuses == {200, 500}                \* statuses of the backend's answers
SWReqs == 1 .. MaxSWReqs

NoStamp == [sec |-> -1, ms |-> 0]        \* no sw-cached-time header

\* new Date().toISOString(): the instant written as date-time text with a
\* separate milliseconds field
toISOString(t) == [sec |-> t \div 1000, ms |-> t % 1000]

\* new Date(header).getTime(); a missing header is new Date(null), the epoch
dateParse(h) == IF h = NoStamp THEN 0 ELSE h.sec * 1000 + h.ms

\* a Response: where it comes from, its status, body and sw-cached-time
\* header; putAt is the instant the entry was written (not program state)
NoCached ==
    [present |-> FALSE, source |-> "none", status |-> NoStatus, body |-> "",
     stamp |-> NoStamp, putAt |-> 0]

\* what fetch() resolves with: successes of either body, errors of one
NetworkResponses ==
    {r \in {[present |-> TRUE, source |-> "network", status |-> st,
             body |-> b, stamp |-> NoStamp, putAt |-> 0] :
                st \in NetStatuses, b \in Payloads} :
        ok(r.status) \/ r.body = "p1"}

\* handleApiRequest(): the Response synthesized when nothing is available
offlineResponse ==
    [present |-> TRUE, source |-> "synth", status |-> 503,
     body |-> "success: false", stamp |-> NoStamp, putAt |-> 0]

IdleSWReq ==
    [pc |-> "idle", url |-> "/api/v2/models", fetched |-> FALSE,
     threw |-> FALSE, result |-> NoCached]

\* variant: an entry exactly five minutes old still counts as valid
cacheValidInclusive(cachedResponse, method, t) ==
    /\ cachedResponse.present
    /\ t - dateParse(cachedResponse.stamp) <= FreshMs
    /\ method = "GET"

\* handleApiRequest(): cacheAge < 5 * 60 * 1000 && request.method === 'GET'
cacheValid(cachedResponse, method, t) ==
    /\ cachedResponse.present
    /\ t - dateParse(cachedResponse.stamp) < FreshMs
    /\ method = "GET"

\* handleApiRequest(): the copy of the network response that is cached,
\* with the sw-cached-time header appended
cachedResponseWithTime(networkResponse, t) ==
    [networkResponse EXCEPT !.source = "cache", !.stamp = toISOString(t),
                            !.putAt = t]

\* variant: the response of every status is cached
cacheableAnyStatus(networkResponse, method) == method = "GET"

\* handleApiRequest(): networkResponse.ok && request.method === 'GET'
cacheable(networkResponse, method) ==
    ok(networkResponse.status) /\ method = "GET"

\* variant: the catch block does not look into the cache
handleApiCatchNoCache(cachedResponse) == offlineResponse

\* handleApiRequest(): the catch block
handleApiCatch(cachedResponse) ==
    IF cachedResponse.present THEN cachedResponse ELSE offlineResponse

\* fetch listener, GET request to /api/: handleApiRequest(request) up to the
\* cached return or the await of fetch(request)
HandleApiRequest(r, url) ==
    /\ swReqs[r].pc = "idle"
    /\ LET cachedResponse == apiCache[url]
       IN  swReqs' = [swReqs EXCEPT ![r] =
               IF cacheValid(cachedResponse, "GET", now)
               THEN [IdleSWReq EXCEPT !.pc = "done", !.url = url,
                                      !.result = cachedResponse]
               ELSE [IdleSWReq EXCEPT !.pc = "fetching", !.url = url,
                                      !.fetched = TRUE]]
    /\ UNCHANGED moreVars
    /\ UNCHANGED <<online, now, apiVars, retryVars, apiCache, syncVars>>

\* handleApiRequest(): fetch(request) resolves with networkResponse
ApiFetchResolves(r, networkResponse) ==
    /\ swReqs[r].pc = "fetching"
    /\ apiCache' =
          IF cacheable(networkResponse, "GET")
          THEN [apiCache EXCEPT ![swReqs[r].url] =
                   cachedResponseWithTime(networkResponse, now)]
          ELSE apiCache
    /\ swReqs' = [swReqs EXCEPT ![r].pc = "done",
                                ![r].result = networkResponse]
    /\ UNCHANGED moreVars
    /\ UNCHANGED <<online, now, apiVars, retryVars, syncVars>>

\* handleApiRequest(): fetch(request) rejects and the catch block runs
ApiFetchRejects(r) ==
    /\ swReqs[r].pc = "fetching"
    /\ swReqs' = [swReqs EXCEPT ![r].pc = "done", ![r].threw = TRUE,
                                ![r].result =
                                    handleApiCatch(apiCache[swReqs[r].url])]
    /\ UNCHANGED moreVars
    /\ UNCHANGED <<online, now, apiVars, retryVars, apiCache, syncVars>>

\* respondWith(): the response has been handed to the page
Respond(r) ==
    /\ swReqs[r].pc = "done"
    /\ swReqs' = [swReqs EXCEPT ![r] = IdleSWReq]
    /\ UNCHANGED moreVars
    /\ UNCHANGED <<online, now, apiVars, retryVars, apiCache, syncVars>>

\* message listener, CLEAR_CACHE: caches.delete(API_CACHE_NAME)
ClearCache ==
    /\ \E u \in Urls : apiCache[u].present
    /\ apiCache' = [u \in Urls |-> NoCached]
    /\ UNCHANGED moreVars
    /\ UNCHANGED <<online, now, apiVars, retryVars, swReqs, syncVars>>

-----------------------------------------------------------------------------
(* Service worker: the deferred-request store and syncPendingRequests *)

SyncRuns == 1 .. MaxSyncRuns
QueueTimes == {1, 2}                     \* queued timestamps of the records
ReplayOutcomes == {"ok", "not ok", "throws"}

IdleRun == [pc |-> "idle", atStart |-> {}, requests |-> <<>>, sent |-> <<>>]

\* the range of a sequence
Range(q) == {q[k] : k \in 1 .. Len(q)}

\* index.getAll() on the 'timestamp' index: the records by ascending
\* timestamp, equal timestamps by ascending primary key
RECURSIVE byTimestamp(_)
byTimestamp(S) ==
    IF S = {} THEN <<>>
    ELSE LET first == CHOOSE x \in S : \A y \in S :
                         \/ x.timestamp < y.timestamp
                         \/ x.timestamp = y.timestamp /\ x.id <= y.id
         IN  <<first>> \o byTimestamp(S \ {first})

\* getAllPendingRequests(db)
getAllPendingRequests(db) == byTimestamp(db)

\* deletePendingRequest(db, id)
deletePendingRequest(db, id) == {rec \in db : rec.id # id}

\* variant: the record is deleted whenever fetch() resolved, ok or not
replayedAnyResponse(db, id, outcome) ==
    IF outcome # "throws" THEN deletePendingRequest(db, id) ELSE db

\* syncPendingRequests(): what the loop body does to the store once the
\* replay of a record has settled
replayed(db, id, outcome) ==
    IF outcome = "ok" THEN deletePendingRequest(db, id) ELSE db

\* a record is put into the 'pendingRequests' store created by
\* openRequestsDatabase (keyPath 'id', autoIncrement, index 'timestamp');
\* no code of the repository does this, the writer is outside it.
\* write is the non-GET fetch event the record was queued for (0: none)
AddPendingRequest(ts) ==
    /\ nextId <= MaxPending
    /\ store' = store \cup {[id |-> nextId, timestamp |-> ts, write |-> 0]}
    /\ nextId' = nextId + 1
    /\ UNCHANGED moreVars
    /\ UNCHANGED <<online, now, apiVars, retryVars, swVars, runs, writes,
                   delivered>>

\* fetch listener, non-GET request w while the client is offline: the
\* listener returns without respondWith(), the browser's own fetch fails
FetchEventWrite(w) ==
    /\ ~online
    /\ w \notin writes
    /\ writes' = writes \cup {w}
    /\ UNCHANGED moreVars
    /\ UNCHANGED <<online, now, apiVars, retryVars, swVars, store, nextId,
                   runs, delivered>>

\* sync listener, tag 'sync-requests': syncPendingRequests() opens the
\* database and reads all the records
SyncPendingRequests(run) ==
    /\ runs[run].pc = "idle"
    /\ LET requests == getAllPendingRequests(store)
       IN  runs' = [runs EXCEPT ![run] =
               [pc |-> IF Len(requests) = 0 THEN "done" ELSE "replay",
                atStart |-> store, requests |-> requests, sent |-> <<>>]]
    /\ UNCHANGED moreVars
    /\ UNCHANGED <<online, now, apiVars, retryVars, swVars, store, nextId,
                   writes, delivered>>

\* syncPendingRequests(): one turn of the loop: the next record is sent with
\* fetch(request.url, ...), the replay settles, the record is deleted when
\* the response is ok, and the loop goes on to the next record
Replay(run, outcome) ==
    /\ runs[run].pc = "replay"
    /\ LET request == runs[run].requests[Len(runs[run].sent) + 1]
       IN  /\ store' = replayed(store, request.id, outcome)
           /\ delivered' = IF outcome = "ok" THEN delivered \cup {request}
                           ELSE delivered
           /\ runs' = [runs EXCEPT
                  ![run].sent = Append(@, request.id),
                  ![run].pc = IF Len(runs[run].sent) + 1 = Len(runs[run].requests)
                              THEN "done" ELSE "replay"]
    /\ UNCHANGED moreVars
    /\ UNCHANGED <<online, now, apiVars, retryVars, swVars, nextId, writes>>

\* syncPendingRequests(): db.close() and return
SyncClose(run) ==
    /\ runs[run].pc = "done"
    /\ runs' = [runs EXCEPT ![run] = IdleRun]
    /\ UNCHANGED moreVars
    /\ UNCHANGED <<online, now, apiVars, retryVars, swVars, store, nextId,
                   writes, delivered>>

-----------------------------------------------------------------------------
(* Service worker: handlePageNavigation *)

NavReqs == 1 .. MaxNavReqs
OfflinePage == "/offline.html"
NavUrls == {"/", "/dashboard"}           \* the pages navigated to
Precached == {"/"}                       \* the pages among PRECACHE_ASSETS

NoPage ==
    [present |-> FALSE, source |-> "none", status |-> NoStatus, body |-> ""]

\* what fetch(request) resolves with for a navigation
PageResponses ==
    {[present |-> TRUE, source |-> "network", status |-> st, body |-> b] :
        st \in {200, 500}, b \in {"n1", "n2"}}

\* the copy cache.addAll(PRECACHE_ASSETS) stored at install
precachedPage ==
    [present |-> TRUE, source |-> "precache", status |-> 200, body |-> "pre"]

IdleNavReq ==
    [pc |-> "idle", url |-> "/", threw |-> FALSE, result |-> NoPage]

\* variant: the catch block answers with the offline page only
handlePageCatchOfflineOnly(cachedResponse, offlinePage) == offlinePage

\* handlePageNavigation(): the catch block: the cached copy of the request,
\* else caches.match('/offline.html')
handlePageCatch(cachedResponse, offlinePage) ==
    IF cachedResponse.present THEN cachedResponse ELSE offlinePage

\* fetch listener, navigation request: handlePageNavigation(request) up to
\* the await of fetch(request)
HandlePageNavigation(n, url) ==
    /\ navReqs[n].pc = "idle"
    /\ navReqs' = [navReqs EXCEPT ![n] =
                      [IdleNavReq EXCEPT !.pc = "fetching", !.url = url]]
    /\ UNCHANGED <<coreVars, lateVars, queueVars, clientVars, pageCache>>

\* handlePageNavigation(): fetch(request) resolves; the page is cached with
\* cache.put(request, networkResponse.clone()) and returned
NavFetchResolves(n, networkResponse) ==
    /\ navReqs[n].pc = "fetching"
    /\ pageCache' = [pageCache EXCEPT ![navReqs[n].url] =
                        [networkResponse EXCEPT !.source = "cache"]]
    /\ navReqs' = [navReqs EXCEPT ![n].pc = "done",
                                  ![n].result = networkResponse]
    /\ UNCHANGED <<coreVars, lateVars, queueVars, clientVars>>

\* handlePageNavigation(): fetch(request) rejects and the catch block runs
NavFetchRejects(n) ==
    /\ navReqs[n].pc = "fetching"
    /\ navReqs' = [navReqs EXCEPT
          ![n].pc = "done", ![n].threw = TRUE,
          ![n].result = handlePageCatch(pageCache[navReqs[n].url],
                                        pageCache[OfflinePage])]
    /\ UNCHANGED <<coreVars, lateVars, queueVars, clientVars, pageCache>>

\* respondWith(): the page has been handed to the browser
NavRespond(n) ==
    /\ navReqs[n].pc = "done"
    /\ navReqs' = [navReqs EXCEPT ![n] = IdleNavReq]
    /\ UNCHANGED <<coreVars, lateVars, queueVars, clientVars, pageCache>>

\* message listener, CLEAR_CACHE: caches.delete(CACHE_NAME)
ClearPageCache ==
    /\ \E u \in DOMAIN pageCache : pageCache[u].present
    /\ pageCache' = [u \in DOMAIN pageCache |-> NoPage]
    /\ UNCHANGED <<coreVars, lateVars, queueVars, clientVars, navReqs>>

-----------------------------------------------------------------------------
(* NeurixAPI: constructor, setToken, interceptors and the config of request *)

Null == "<null>"                         \* the token null
Undefined == "<undefined>"               \* the value undefined
Absent == "<absent>"                     \* a header the object does not have
Tokens == {"t1", "t2"}
HeaderNames == {"Content-Type", "Accept", "Authorization", "X-Trace"}
DefaultNames == {"Content-Type", "Accept", "Authorization"}
InterceptorIds == {"a", "b"}

NoHeaders == [h \in HeaderNames |-> Absent]

\* initialize(): this.defaultHeaders
initialHeaders ==
    [NoHeaders EXCEPT !["Content-Type"] = "application/json",
                      !["Accept"] = "application/json"]

bearer(t) == "Bearer " \o t

\* setToken(): the header is set for a truthy token and deleted otherwise
setTokenHeaders(headers, t) ==
    IF t \notin {Null, Undefined}
    THEN [headers EXCEPT !["Authorization"] = bearer(t)]
    ELSE [headers EXCEPT !["Authorization"] = Absent]

\* { ...base, ...over }
spread(base, over) ==
    [h \in HeaderNames |-> IF over[h] # Absent THEN over[h] ELSE base[h]]

\* the options argument of request(): with or without a headers property
NoOptions == [hasHeaders |-> FALSE, headers |-> NoHeaders]
Options ==
    {NoOptions,
     [hasHeaders |-> TRUE, headers |-> [NoHeaders EXCEPT !["X-Trace"] = "1"]],
     [hasHeaders |-> TRUE, headers |-> [NoHeaders EXCEPT !["Accept"] = "text/csv"]]}

NoConfig == [headers |-> NoHeaders, via |-> <<>>]
NoReply == [status |-> NoStatus, via |-> <<>>]

\* request(): { method, headers: { ...defaultHeaders, ...options.headers },
\* ...options }: a headers property of options replaces the merged one
requestConfig(defaults, options) ==
    [headers |-> IF options.hasHeaders THEN options.headers
                 ELSE spread(defaults, options.headers),
     via |-> <<>>]

\* a request interceptor: it stamps the config it is given
requestInterceptor(k, config) ==
    [headers |-> [config.headers EXCEPT !["X-Trace"] = k],
     via |-> Append(config.via, k)]

\* a response interceptor: it marks the response it is given
responseInterceptor(k, response) ==
    [response EXCEPT !.via = Append(@, k)]

\* variant: the interceptors are run from the last registered to the first
interceptorAtReversed(list, i) == list[Len(list) + 1 - i]

\* for (const interceptor of list): the i-th interceptor run
interceptorAt(list, i) == list[i]

IdleSend ==
    [pc |-> "idle", options |-> NoOptions, defaults |-> NoHeaders,
     config |-> NoConfig, i |-> 0, fetched |-> FALSE, sent |-> NoConfig,
     response |-> NoReply, parsed |-> NoReply, kind |-> "none"]

\* new NeurixAPI(config): this.token = config.token || null, initialize()
Construct(configToken) ==
    /\ token = configToken
    /\ defaultHeaders = initialHeaders
    /\ interceptors = [request |-> <<>>, response |-> <<>>]
    /\ send = IdleSend

SetToken(t) ==
    /\ t # token
    /\ token' = t
    /\ defaultHeaders' = setTokenHeaders(defaultHeaders, t)
    /\ UNCHANGED <<coreVars, lateVars, queueVars, navVars, interceptors, send>>

AddRequestInterceptor(k) ==
    /\ Len(interceptors.request) < MaxInterceptors
    /\ interceptors' = [interceptors EXCEPT !.request = Append(@, k)]
    /\ UNCHANGED <<coreVars, lateVars, queueVars, navVars, token, defaultHeaders, send>>

AddResponseInterceptor(k) ==
    /\ Len(interceptors.response) < MaxInterceptors
    /\ interceptors' = [interceptors EXCEPT !.response = Append(@, k)]
    /\ UNCHANGED <<coreVars, lateVars, queueVars, navVars, token, defaultHeaders, send>>

\* request(): fetch() is invoked with the config reached
fetchWith(s, config) ==
    [s EXCEPT !.pc = "fetching", !.config = config, !.fetched = TRUE,
              !.sent = config]

\* request(): the body is parsed and the status looked at
parseAndSettle(s, response) ==
    [s EXCEPT !.pc = "done", !.response = response, !.parsed = response,
              !.kind = IF ok(response.status) THEN "resolved" ELSE "rejected"]

\* request(method, endpoint, data, options): up to its first await, which is
\* the first request interceptor, or fetch() when there is none
SendRequest(options) ==
    /\ send.pc = "idle"
    /\ LET config == requestConfig(defaultHeaders, options)
           s == [IdleSend EXCEPT !.options = options,
                                 !.defaults = defaultHeaders]
       IN  send' = IF interceptors.request = <<>>
                   THEN fetchWith(s, config)
                   ELSE [s EXCEPT !.pc = "configuring", !.config = config,
                                  !.i = 1]
    /\ UNCHANGED <<coreVars, lateVars, queueVars, navVars, token, defaultHeaders, interceptors>>

\* request(): the request interceptor awaited returns its config; the loop
\* goes on to the next one registered by now, or to fetch()
RequestInterceptorReturns ==
    /\ send.pc = "configuring"
    /\ LET config == requestInterceptor(
                         interceptorAt(interceptors.request, send.i),
                         send.config)
       IN  send' = IF send.i < Len(interceptors.request)
                   THEN [send EXCEPT !.config = config, !.i = @ + 1]
                   ELSE fetchWith(send, config)
    /\ UNCHANGED <<coreVars, lateVars, queueVars, navVars, token, defaultHeaders, interceptors>>

\* request(): fetch() resolves; the first response interceptor is awaited,
\* or the body is parsed when there is none
SendFetchResolves(status) ==
    /\ send.pc = "fetching"
    /\ LET response == [status |-> status, via |-> <<>>]
       IN  send' = IF interceptors.response = <<>>
                   THEN parseAndSettle(send, response)
                   ELSE [send EXCEPT !.pc = "receiving",
                                     !.response = response, !.i = 1]
    /\ UNCHANGED <<coreVars, lateVars, queueVars, navVars, token, defaultHeaders, interceptors>>

\* request(): fetch() rejects and so does the call
SendFetchRejects ==
    /\ send.pc = "fetching"
    /\ send' = [send EXCEPT !.pc = "done", !.kind = "rejected"]
    /\ UNCHANGED <<coreVars, lateVars, queueVars, navVars, token, defaultHeaders, interceptors>>

\* request(): the response interceptor awaited returns its response
ResponseInterceptorReturns ==
    /\ send.pc = "receiving"
    /\ LET response == responseInterceptor(
                           interceptorAt(interceptors.response, send.i),
                           send.response)
       IN  send' = IF send.i < Len(interceptors.response)
                   THEN [send EXCEPT !.response = response, !.i = @ + 1]
                   ELSE parseAndSettle(send, response)
    /\ UNCHANGED <<coreVars, lateVars, queueVars, navVars, token, defaultHeaders, interceptors>>

\* request(): the interceptor awaited throws and the call rejects
InterceptorThrows ==
    /\ send.pc \in {"configuring", "receiving"}
    /\ send' = [send EXCEPT !.pc = "done", !.kind = "rejected"]
    /\ UNCHANGED <<coreVars, lateVars, queueVars, navVars, token, defaultHeaders, interceptors>>

\* the caller has consumed the outcome
SendReturn ==
    /\ send.pc = "done"
    /\ send' = IdleSend
    /\ UNCHANGED <<coreVars, lateVars, queueVars, navVars, token, defaultHeaders, interceptors>>

-----------------------------------------------------------------------------
(* NeurixAPI.enqueue and NeurixAPI.processQueue *)

Items == 1 .. MaxQueued                  \* the requests, in submission order

NoPromise == [state |-> "none", result |-> NoResult]
IdleLoop == [pc |-> "off", item |-> 0]

\* variant: processQueue() returns early for an empty queue only
processQueueGuardEmptyOnly(processing, q) == q = <<>>

\* processQueue(): the early return
processQueueGuard(processing, q) == processing \/ q = <<>>

\* variant: processQueue() handles one request and stops
loopOnce(q) == FALSE

\* processQueue(): while (this.queue.length > 0)
loopCondition(q) == q # <<>>

\* this.queue.shift()
shift(q) == [item |-> Head(q), rest |-> Tail(q)]

\* processQueue(): one turn of the while loop up to the await of request()
dispatch(l, q) ==
    /\ queue' = shift(q).rest
    /\ loops' = [loops EXCEPT ![l] = [pc |-> "requesting",
                                      item |-> shift(q).item]]
    /\ calls' = [calls EXCEPT ![l] =
                    requestStart([IdleCall EXCEPT !.op = "request"], now)]
    /\ started' = Append(started, shift(q).item)

\* enqueue(request): the promise is created, the request is queued and
\* processQueue() runs up to its early return or its first await
Enqueue ==
    /\ \E i \in Items : promises[i].state = "none"
    /\ LET i == CHOOSE j \in Items :
                  /\ promises[j].state = "none"
                  /\ \A k \in Items : promises[k].state = "none" => j <= k
           q == Append(queue, i)
       IN  /\ promises' = [promises EXCEPT ![i].state = "pending"]
           /\ IF processQueueGuard(isProcessingQueue, q)
              THEN /\ queue' = q
                   /\ UNCHANGED <<isProcessingQueue, loops, calls, started>>
              ELSE /\ isProcessingQueue' = TRUE
                   /\ \E l \in Calls : loops[l].pc = "off" /\ dispatch(l, q)
    /\ UNCHANGED <<delayed, served>>
    /\ UNCHANGED <<onTokenExpired, onRateLimitExceeded, localStorage, online,
                   now, retryVars, swVars, syncVars, navVars, clientVars,
                   lateVars>>

\* processQueue(): request() settles, the promise of the request is
\* resolved or rejected with its outcome, and delay(100) is awaited
QueueRequestSettles(l, resp) ==
    /\ loops[l].pc = "requesting"
    /\ LET s == requestSettle(resp, online, calls[l].entry.present)
           i == loops[l].item
       IN  /\ calls' = requestEnd(calls, l, resp, online, s, s.result, now)
           /\ promises' = [promises EXCEPT ![i] =
                              [state |-> s.result.kind, result |-> s.result]]
           /\ served' = [served EXCEPT ![i] = s.result]
    /\ loops' = [loops EXCEPT ![l].pc = "delaying"]
    /\ UNCHANGED <<queue, isProcessingQueue, started, delayed>>
    /\ UNCHANGED <<onTokenExpired, onRateLimitExceeded, localStorage, online,
                   now, retryVars, swVars, syncVars, navVars, clientVars,
                   lateVars>>

\* processQueue(): the delay is over; the loop takes the next request, or
\* ends and clears the flag when the queue is empty
QueueDelayElapsed(l) ==
    /\ loops[l].pc = "delaying"
    /\ delayed' = delayed \cup {loops[l].item}
    /\ IF loopCondition(queue)
       THEN /\ dispatch(l, queue)
            /\ UNCHANGED isProcessingQueue
       ELSE /\ isProcessingQueue' = FALSE
            /\ loops' = [loops EXCEPT ![l] = IdleLoop]
            /\ calls' = [calls EXCEPT ![l] = IdleCall]
            /\ UNCHANGED <<queue, started>>
    /\ UNCHANGED <<promises, served>>
    /\ UNCHANGED <<onTokenExpired, onRateLimitExceeded, localStorage, online,
                   now, retryVars, swVars, syncVars, navVars, clientVars,
                   lateVars>>

InitQueue ==
    /\ queue = <<>>
    /\ isProcessingQueue = FALSE
    /\ loops = [l \in Calls |-> IdleLoop]
    /\ promises = [i \in Items |-> NoPromise]
    /\ started = <<>>
    /\ delayed = {}
    /\ served = [i \in Items |-> NoResult]

-----------------------------------------------------------------------------
(* NeurixApp.login and NeurixApp.logout *)

Users == {"ada"}

\* issued is the token in the body of the login response, user is what
\* login() read as response.user
IdleLogin == [pc |-> "idle", issued |-> Null, user |-> Null,
              success |-> FALSE]
IdleLogout == [pc |-> "idle", resolved |-> FALSE]

\* request(): what a resolved call returns, here for a login response whose
\* body carries the token and the user
loginResponse(t, u) ==
    [success |-> TRUE, status |-> 200, data |-> [token |-> t, user |-> u],
     headers |-> "headers"]

\* response.name: a property the object does not have reads as undefined
prop(response, name) ==
    IF name \in DOMAIN response THEN response[name] ELSE Undefined

\* localStorage.setItem('token', value): the value is stored as a string
setItem(value) == IF value = Undefined THEN "undefined" ELSE value

\* login(credentials): up to the await of api.post('/auth/login')
Login ==
    /\ login.pc = "idle"
    /\ login' = [IdleLogin EXCEPT !.pc = "posting"]
    /\ UNCHANGED <<coreVars, navVars, clientVars, queueVars, activateVars,
                   batchVars,
                   state, tokenItem, logout>>

\* login(): the post rejects; the catch block returns { success: false }
LoginPostRejects ==
    /\ login.pc = "posting"
    /\ login' = [login EXCEPT !.pc = "done", !.success = FALSE]
    /\ UNCHANGED <<coreVars, navVars, clientVars, queueVars, activateVars,
                   batchVars,
                   state, tokenItem, logout>>

\* login(): the post resolves with the response of a backend that issued
\* token t to user u; state, localStorage and the API client are updated
\* from response.token and response.user, and loadUserData() is awaited
LoginPostResolves(t, u) ==
    /\ login.pc = "posting"
    /\ LET response == loginResponse(t, u)
       IN  /\ response.success
           /\ state' = [token |-> prop(response, "token"),
                        user |-> prop(response, "user")]
           /\ tokenItem' = setItem(prop(response, "token"))
           /\ token' = prop(response, "token")
           /\ defaultHeaders' = setTokenHeaders(defaultHeaders,
                                                prop(response, "token"))
    /\ login' = [login EXCEPT !.pc = "loading", !.issued = t,
                              !.user = prop(loginResponse(t, u), "user")]
    /\ UNCHANGED <<coreVars, navVars, queueVars, activateVars,
                   batchVars, interceptors,
                   send, logout>>

\* login(): loadUserData() settles. When it rejects the catch block returns
\* { success: false }; when it resolves, response.user.username is read:
\* of an undefined response.user this throws a TypeError and the catch
\* block returns { success: false }, otherwise login returns
\* { success: true }
LoginUserDataSettles(loaded) ==
    /\ login.pc = "loading"
    /\ login' = [login EXCEPT !.pc = "done",
                              !.success = loaded /\ login.user # Undefined]
    /\ UNCHANGED <<coreVars, navVars, clientVars, queueVars, activateVars,
                   batchVars,
                   state, tokenItem, logout>>

\* the caller has consumed the outcome of login()
LoginReturn ==
    /\ login.pc = "done"
    /\ login' = IdleLogin
    /\ UNCHANGED <<coreVars, navVars, clientVars, queueVars, activateVars,
                   batchVars,
                   state, tokenItem, logout>>

\* logout(): up to the await of api.post('/auth/logout')
Logout ==
    /\ logout.pc = "idle"
    /\ logout' = [IdleLogout EXCEPT !.pc = "posting"]
    /\ UNCHANGED <<coreVars, navVars, clientVars, queueVars, activateVars,
                   batchVars,
                   state, tokenItem, login>>

\* logout(): the post settles. After a resolved post the state and the
\* localStorage entry are cleared; a rejected post goes to the catch block,
\* which only logs
LogoutPostSettles(resolved) ==
    /\ logout.pc = "posting"
    /\ IF resolved
       THEN /\ state' = [token |-> Null, user |-> Null]
            /\ tokenItem' = Absent
       ELSE UNCHANGED <<state, tokenItem>>
    /\ logout' = [logout EXCEPT !.pc = "done", !.resolved = resolved]
    /\ UNCHANGED <<coreVars, navVars, clientVars, queueVars, activateVars,
                   batchVars,
                   login>>

\* the caller has consumed the completion of logout()
LogoutReturn ==
    /\ logout.pc = "done"
    /\ logout' = IdleLogout
    /\ UNCHANGED <<coreVars, navVars, clientVars, queueVars, activateVars,
                   batchVars,
                   state, tokenItem, login>>

\* new NeurixApp(): state.token is localStorage.getItem('token')
appState(item) ==
    [token |-> IF item = Absent THEN Null ELSE item, user |-> Null]

InitApp ==
    /\ tokenItem = Absent
    /\ state = appState(Absent)
    /\ login = IdleLogin
    /\ logout = IdleLogout

-----------------------------------------------------------------------------
(* NeurixAPI.batch *)

BatchRequests ==
    {[method |-> m, endpoint |-> "/models"] : m \in {"GET", "POST"}}

\* the request() call batch() awaits occupies this slot of calls
BatchCall == CHOOSE c \in Calls : \A d \in Calls : c <= d

\* sent and settled follow the request() calls the loop makes: the
\* requests passed and the outcomes received, in the order of the calls
IdleBatch == [pc |-> "idle", requests |-> <<>>, results |-> <<>>,
              rejected |-> FALSE, sent |-> <<>>, settled |-> <<>>]

\* variant: no catch block, the error of request() leaves batch()
batchCatchMissing(b, error) == [b EXCEPT !.pc = "done", !.rejected = TRUE]

\* batch(): catch (error) { results.push({ success: false, error }) }
batchCatch(b, error) ==
    [b EXCEPT !.results = Append(@, [success |-> FALSE, value |-> error])]

\* batch(): results.push({ success: true, data: result })
batchPush(b, result) ==
    [b EXCEPT !.results = Append(@, [success |-> TRUE, value |-> result])]

\* batch(): the for loop reaches its next turn: request() is called for the
\* next element, or the loop is over and results is returned
batchLoop(b) ==
    IF b.pc = "done" THEN b
    ELSE IF Len(b.results) = Len(b.requests) THEN [b EXCEPT !.pc = "done"]
    ELSE [b EXCEPT !.pc = "requesting",
                   !.sent = Append(@, b.requests[Len(b.results) + 1])]

\* the effect of a turn of the loop on the request() call of the batch
batchCall(b, cs) ==
    IF b.pc = "requesting"
    THEN [cs EXCEPT ![BatchCall] =
             requestStart([IdleCall EXCEPT
                              !.op = "request",
                              !.method = b.sent[Len(b.sent)].method,
                              !.endpoint = b.sent[Len(b.sent)].endpoint],
                          now)]
    ELSE cs

\* batch(requests): up to the first await of request(), or to the end for
\* an empty array
Batch(requests) ==
    /\ batch.pc = "idle"
    /\ calls[BatchCall].pc = "idle"
    /\ batch' = batchLoop([IdleBatch EXCEPT !.pc = "started",
                                            !.requests = requests])
    /\ calls' = batchCall(batch', calls)
    /\ UNCHANGED <<onTokenExpired, onRateLimitExceeded, localStorage, online,
                   now, retryVars, swVars, syncVars, navVars, clientVars,
                   queueVars, activateVars, appVars>>

\* batch(): request() settles, its outcome is pushed, and the loop goes on
BatchRequestSettles(resp) ==
    /\ batch.pc = "requesting"
    /\ LET s == requestSettle(resp, online, calls[BatchCall].entry.present)
           b == [batch EXCEPT !.settled = Append(@, s.result)]
           ended == requestEnd(calls, BatchCall, resp, online, s, s.result,
                               now)
       IN  /\ batch' = batchLoop(IF s.result.kind = "resolved"
                                 THEN batchPush(b, s.result)
                                 ELSE batchCatch(b, s.result))
           /\ calls' = batchCall(batch', ended)
    /\ UNCHANGED <<onTokenExpired, onRateLimitExceeded, localStorage, online,
                   now, retryVars, swVars, syncVars, navVars, clientVars,
                   queueVars, activateVars, appVars>>

\* the caller has consumed the outcome of batch()
BatchReturn ==
    /\ batch.pc = "done"
    /\ batch' = IdleBatch
    /\ calls' = [calls EXCEPT ![BatchCall] = IdleCall]
    /\ UNCHANGED <<onTokenExpired, onRateLimitExceeded, localStorage, online,
                   now, retryVars, swVars, syncVars, navVars, clientVars,
                   queueVars, activateVars, appVars>>

InitBatch == batch = IdleBatch

-----------------------------------------------------------------------------
(* Service worker: the activate listener *)

CACHE_NAME == "changex-neurix-v2.0.0"
API_CACHE_NAME == "changex-neurix-api-v1"
OldCaches == {"changex-neurix-old-" \o ToString(k) : k \in 1 .. MaxOldCaches}

Installed == [pc |-> "installed", atStart |-> {}, pending |-> {},
              claimed |-> FALSE]

\* variant: only the cache of the current version is spared
isOldCacheButApi(cacheName) == cacheName # CACHE_NAME

\* activate listener: cacheName !== CACHE_NAME && cacheName !== API_CACHE_NAME
isOldCache(cacheName) ==
    cacheName # CACHE_NAME /\ cacheName # API_CACHE_NAME

\* activate listener: caches.keys() is called
Activate ==
    /\ activation.pc = "installed"
    /\ activation' = [activation EXCEPT !.pc = "listing",
                                        !.atStart = cacheNames]
    /\ UNCHANGED <<coreVars, navVars, clientVars, queueVars, appVars,
                   batchVars, cacheNames>>

\* activate listener: caches.keys() resolves and caches.delete() is called
\* for every old cache
KeysResolve ==
    /\ activation.pc = "listing"
    /\ activation' = [activation EXCEPT
                         !.pc = "deleting",
                         !.pending = {n \in cacheNames : isOldCache(n)}]
    /\ UNCHANGED <<coreVars, navVars, clientVars, queueVars, appVars,
                   batchVars, cacheNames>>

\* one of the caches.delete() calls completes
DeleteCompletes(cacheName) ==
    /\ activation.pc = "deleting"
    /\ cacheName \in activation.pending
    /\ cacheNames' = cacheNames \ {cacheName}
    /\ activation' = [activation EXCEPT !.pending = @ \ {cacheName}]
    /\ UNCHANGED <<coreVars, navVars, clientVars, queueVars, appVars,
                   batchVars>>

\* activate listener: Promise.all resolves and clients.claim() is called
ClaimClients ==
    /\ activation.pc = "deleting"
    /\ activation.pending = {}
    /\ activation' = [activation EXCEPT !.pc = "done", !.claimed = TRUE]
    /\ UNCHANGED <<coreVars, navVars, clientVars, queueVars, appVars,
                   batchVars, cacheNames>>

\* after install and a first API response: both current caches exist
InitActivate ==
    /\ cacheNames = {CACHE_NAME, API_CACHE_NAME}
    /\ activation = Installed

InitLate == InitActivate /\ InitApp /\ InitBatch

-----------------------------------------------------------------------------
(* Initial values of the parts a specification does not exercise *)

\* new NeurixAPI(config): either callback may be left out
InitConfig ==
    /\ onTokenExpired \in BOOLEAN
    /\ onRateLimitExceeded \in BOOLEAN

\* initializeCore(): the application configures both callbacks
InitAppConfig ==
    /\ onTokenExpired = TRUE
    /\ onRateLimitExceeded = TRUE

InitApi ==
    /\ localStorage = [e \in Endpoints |-> NoEntry]
    /\ calls = [c \in Calls |-> IdleCall]

InitEnv ==
    /\ online = TRUE
    /\ now = 0

InitRetry == retryCall = IdleRetry
InitSW ==
    /\ apiCache = [u \in Urls |-> NoCached]
    /\ swReqs = [r \in SWReqs |-> IdleSWReq]
\* after install: the pages among PRECACHE_ASSETS are cached; /offline.html
\* is not one of them
InitNav ==
    /\ pageCache = [u \in NavUrls \cup {OfflinePage} |->
                       IF u \in Precached THEN precachedPage ELSE NoPage]
    /\ navReqs = [n \in NavReqs |-> IdleNavReq]

InitMore == InitNav /\ Construct(Null) /\ InitQueue /\ InitLate

InitSync ==
    /\ store = {}
    /\ nextId = 1
    /\ runs = [run \in SyncRuns |-> IdleRun]
    /\ writes = {}
    /\ delivered = {}

-----------------------------------------------------------------------------
(* SpecRequest: concurrent request() calls *)

InitRequest == InitConfig /\ InitApi /\ InitEnv /\ InitRetry /\ InitSW /\ InitSync
        /\ InitMore

NextRequest ==
    \* the outcome of request() depends on neither method nor endpoint
    \/ \E c \in Calls : Request(c, "POST", "/models")
    \/ \E c \in Calls, r \in Responses : RequestSettle(c, r)
    \/ \E c \in Calls : Return(c)
    \/ \E b \in BOOLEAN : SetOnline(b)

SpecRequest == InitRequest /\ [][NextRequest]_vars

-----------------------------------------------------------------------------
(* SpecCache: getWithCache() calls, one at a time, while time passes *)

InitCache == InitConfig /\ InitApi /\ InitEnv /\ InitRetry /\ InitSW /\ InitSync
        /\ InitMore

\* what get() settles with here: a network failure, or a success or a
\* server error with each kind of body
CacheResponses ==
    {r \in Responses \cup BlobResponses :
        r.threw \/ (r.status \in {200, 500} /\ r.message = "")}

NextCache ==
    \/ \E e \in Endpoints : GetWithCache(1, e, DefaultTtl)
    \/ \E r \in CacheResponses : GetWithCacheSettle(1, r)
    \/ Return(1)
    \/ \E b \in BOOLEAN : SetOnline(b)
    \/ \E t \in ClockValues : Tick(t)

SpecCache == InitCache /\ [][NextCache]_vars

-----------------------------------------------------------------------------
(* SpecRetry: one retry() call; every attempt settles and every timer fires *)

InitRetryCall == InitAppConfig /\ InitApi /\ InitEnv /\ InitRetry /\ InitSW /\ InitSync
        /\ InitMore

NextRetry ==
    \/ \E m \in 0 .. MaxRetries, d \in Delays : Retry(m, d)
    \/ \E v \in Values : RetryAttemptResolves(v)
    \/ \E st \in ErrorStatuses : RetryAttemptRejects(st)
    \/ RetryDelayElapsed

SpecRetry == InitRetryCall /\ [][NextRetry]_vars /\ WF_vars(NextRetry)

-----------------------------------------------------------------------------
(* SpecSW: GET requests to /api/ handled by the service worker *)

InitWorker == InitAppConfig /\ InitApi /\ InitEnv /\ InitRetry /\ InitSW /\ InitSync
        /\ InitMore

\* the instants at which the worker is observed: each cache lifetime and
\* 1 ms before it
WorkerClock == {t \in ClockValues : t % FreshMs \in {0, FreshMs - 1}}

NextSW ==
    \/ \E r \in SWReqs, u \in Urls : HandleApiRequest(r, u)
    \/ \E r \in SWReqs, n \in NetworkResponses : ApiFetchResolves(r, n)
    \/ \E r \in SWReqs : ApiFetchRejects(r)
    \/ \E r \in SWReqs : Respond(r)
    \/ ClearCache
    \/ \E t \in WorkerClock : Tick(t)

SpecSW == InitWorker /\ [][NextSW]_vars

-----------------------------------------------------------------------------
(* SpecSync: concurrent runs of syncPendingRequests over the store *)

NextSync ==
    \/ \E ts \in QueueTimes : AddPendingRequest(ts)
    \/ \E run \in SyncRuns : SyncPendingRequests(run)
    \/ \E run \in SyncRuns, o \in ReplayOutcomes : Replay(run, o)
    \/ \E run \in SyncRuns : SyncClose(run)

SpecSync == InitWorker /\ [][NextSync]_vars

-----------------------------------------------------------------------------
(* SpecOffline: writes issued while offline, the store and one sync run *)

InitOffline == InitWorker

NextOffline ==
    \/ \E b \in BOOLEAN : SetOnline(b)
    \/ \E w \in 1 .. MaxWrites : FetchEventWrite(w)
    \/ \E ts \in QueueTimes : AddPendingRequest(ts)
    \/ SyncPendingRequests(1)
    \/ \E o \in ReplayOutcomes : Replay(1, o)
    \/ SyncClose(1)

SpecOffline == InitOffline /\ [][NextOffline]_vars

-----------------------------------------------------------------------------
(* SpecNav: navigation requests handled by the service worker *)

InitNavigation == InitWorker

NextNav ==
    \/ \E n \in NavReqs, u \in NavUrls : HandlePageNavigation(n, u)
    \/ \E n \in NavReqs, p \in PageResponses : NavFetchResolves(n, p)
    \/ \E n \in NavReqs : NavFetchRejects(n)
    \/ \E n \in NavReqs : NavRespond(n)
    \/ ClearPageCache

SpecNav == InitNavigation /\ [][NextNav]_vars

-----------------------------------------------------------------------------
(* SpecLimit: request() calls answered with rate-limit headers *)

Remainings == {NoRemaining, 0, WarnBelow - 1, WarnBelow, WarnBelow + 1}

\* responses of the backend's rate limiter: successes and 429 refusals,
\* with or without an X-RateLimit-Remaining header
LimitResponses ==
    {[NoResponse EXCEPT !.threw = TRUE]}
    \cup {[threw |-> FALSE, status |-> st, ctype |-> "json", message |-> "",
           payload |-> "p1", parseOk |-> TRUE, remaining |-> n] :
              st \in {200, 429}, n \in Remainings}

InitLimit == InitRequest

NextLimit ==
    \/ \E c \in Calls : Request(c, "GET", "/models")
    \/ \E c \in Calls, r \in LimitResponses : RequestSettle(c, r)
    \/ \E c \in Calls : Return(c)

SpecLimit == InitLimit /\ [][NextLimit]_vars

-----------------------------------------------------------------------------
(* SpecLedger: the ledger this.requests while calls settle and hours pass *)

\* the instants at which the ledger is looked at: each hour and 1 ms later
LedgerClock == {k * oneHour + d : k \in 1 .. MaxEpochs, d \in {0, 1}}

LedgerResponses ==
    {r \in Responses : r.threw \/ (r.status \in {200, 500} /\ r.message = "")}

\* the client as initializeCore() configures it
InitLedger == InitRetryCall

NextLedger ==
    \/ \E c \in Calls : Request(c, "GET", "/models")
    \/ \E c \in Calls, r \in LedgerResponses : RequestSettle(c, r)
    \/ \E c \in Calls : Return(c)
    \/ \E t \in LedgerClock : Tick(t)

SpecLedger == InitLedger /\ [][NextLedger]_vars

-----------------------------------------------------------------------------
(* SpecFailure: request() and getWithCache() calls side by side *)

FailureResponses ==
    {r \in Responses : r.threw \/ (r.status \in {200, 500} /\ r.ctype = "json"
                                      /\ r.parseOk /\ r.message = "")}

\* the client as initializeCore() configures it
InitFailure == InitRetryCall

NextFailure ==
    \/ \E c \in Calls : Request(c, "GET", "/models")
    \/ \E c \in Calls, r \in FailureResponses : RequestSettle(c, r)
    \/ \E c \in Calls : GetWithCache(c, "/models", DefaultTtl)
    \/ \E c \in Calls, r \in FailureResponses : GetWithCacheSettle(c, r)
    \/ \E c \in Calls : Return(c)
    \/ \E b \in BOOLEAN : SetOnline(b)

SpecFailure == InitFailure /\ [][NextFailure]_vars

-----------------------------------------------------------------------------
(* SpecClient: the client's token, headers and interceptors *)

\* new NeurixAPI(config), with or without config.token
InitClient ==
    /\ InitAppConfig /\ InitApi /\ InitEnv /\ InitRetry /\ InitSW /\ InitSync
    /\ InitNav /\ InitQueue /\ InitLate
    /\ \E t \in {Null} \cup Tokens : Construct(t)

NextClient ==
    \/ \E t \in {Null} \cup Tokens : SetToken(t)
    \/ \E k \in InterceptorIds : AddRequestInterceptor(k)
    \/ \E k \in InterceptorIds : AddResponseInterceptor(k)
    \/ \E o \in Options : SendRequest(o)
    \/ RequestInterceptorReturns
    \/ \E st \in {200, 500} : SendFetchResolves(st)
    \/ SendFetchRejects
    \/ ResponseInterceptorReturns
    \/ InterceptorThrows
    \/ SendReturn

SpecClient == InitClient /\ [][NextClient]_vars

-----------------------------------------------------------------------------
(* SpecQueue: requests submitted through enqueue() *)

InitQueued == InitRetryCall

NextQueue ==
    \/ Enqueue
    \/ \E l \in Calls, r \in FailureResponses : QueueRequestSettles(l, r)
    \/ \E l \in Calls : QueueDelayElapsed(l)

SpecQueue == InitQueued /\ [][NextQueue]_vars

\* SpecQueueLive: every request() call the loop awaits settles and every
\* delay(100) timer fires; nothing obliges a caller to enqueue
SpecQueueLive ==
    /\ InitQueued
    /\ [][NextQueue]_vars
    /\ WF_vars(\E l \in Calls, r \in FailureResponses :
                  QueueRequestSettles(l, r))
    /\ WF_vars(\E l \in Calls : QueueDelayElapsed(l))

-----------------------------------------------------------------------------
(* SpecActivate: the activate step over the caches found at its start *)

\* install has created CACHE_NAME; the API cache and the caches of earlier
\* versions may or may not exist
InitActivation ==
    /\ InitAppConfig /\ InitApi /\ InitEnv /\ InitRetry /\ InitSW /\ InitSync
    /\ InitNav /\ Construct(Null) /\ InitQueue /\ InitApp /\ InitBatch
    /\ \E S \in SUBSET (OldCaches \cup {API_CACHE_NAME}) :
          cacheNames = {CACHE_NAME} \cup S
    /\ activation = Installed

NextActivate ==
    \/ Activate
    \/ KeysResolve
    \/ \E n \in OldCaches \cup {CACHE_NAME, API_CACHE_NAME} : DeleteCompletes(n)
    \/ ClaimClients

SpecActivate == InitActivation /\ [][NextActivate]_vars

-----------------------------------------------------------------------------
(* SpecAuth: login() and logout() of an app started with or without a
   stored token *)

\* initializeCore(): the API client is constructed with state.token
InitAuth ==
    /\ InitAppConfig /\ InitApi /\ InitEnv /\ InitRetry /\ InitSW /\ InitSync
    /\ InitNav /\ InitQueue /\ InitActivate /\ InitBatch
    /\ tokenItem \in {Absent} \cup Tokens
    /\ state = appState(tokenItem)
    /\ Construct(state.token)
    /\ login = IdleLogin
    /\ logout = IdleLogout

NextAuth ==
    \/ Login
    \/ LoginPostRejects
    \/ \E t \in Tokens, u \in Users : LoginPostResolves(t, u)
    \/ \E loaded \in BOOLEAN : LoginUserDataSettles(loaded)
    \/ LoginReturn
    \/ Logout
    \/ \E resolved \in BOOLEAN : LogoutPostSettles(resolved)
    \/ LogoutReturn

SpecAuth == InitAuth /\ [][NextAuth]_vars

-----------------------------------------------------------------------------
(* SpecBatch: batch() over arrays of up to MaxBatch requests *)

RECURSIVE SeqsUpTo(_, _)
SeqsUpTo(S, n) ==
    IF n = 0 THEN {<<>>}
    ELSE LET shorter == SeqsUpTo(S, n - 1)
         IN  shorter \cup {Append(q, x) : q \in shorter, x \in S}

InitBatched == InitRetryCall

NextBatch ==
    \/ \E requests \in SeqsUpTo(BatchRequests, MaxBatch) : Batch(requests)
    \/ \E r \in FailureResponses : BatchRequestSettles(r)
    \/ BatchReturn

SpecBatch == InitBatched /\ [][NextBatch]_vars

-----------------------------------------------------------------------------
(* Properties of request() and handleError(), under SpecRequest *)

\* a request() call that has settled after fetch() produced a response
Answered(c) ==
    /\ calls[c].pc = "done"
    /\ calls[c].op = "request"
    /\ ~calls[c].resp.threw

\* C1: a response of status 401, with onTokenExpired configured, makes
\* request() invoke the callback exactly once and reject; a response of any
\* other status never invokes the callback.
C1_TokenExpiredOn401 ==
    \A c \in Calls : Answered(c) =>
        /\ (calls[c].resp.status = 401 /\ onTokenExpired) =>
              (calls[c].expired = 1 /\ calls[c].result.kind = "rejected")
        /\ calls[c].resp.status # 401 => calls[c].expired = 0

\* the statuses C2 speaks of: 403, 404, 422, 429 and every 5xx
MappedStatus(st) == st \in {403, 404, 422, 429} \/ (st >= 500 /\ st <= 599)

\* C2: for a response of status 403, 404, 422, 429 or 5xx, request() rejects
\* with a message that is a function of the status alone: two calls answered
\* with the same such status reject with the same message, whatever the
\* bodies and the state of the client.
C2_FixedMessageByStatus ==
    \A c1, c2 \in Calls :
        (/\ Answered(c1) /\ Answered(c2)
         /\ MappedStatus(calls[c1].resp.status)
         /\ calls[c1].resp.status = calls[c2].resp.status)
        => /\ calls[c1].result.kind = "rejected"
           /\ calls[c2].result.kind = "rejected"
           /\ calls[c1].result.message = calls[c2].result.message

-----------------------------------------------------------------------------
(* Properties of getWithCache(), under SpecCache *)

\* the request made by a settled getWithCache() call has failed: fetch()
\* rejected, the body could not be parsed, or the status was not ok
GetFailed(c) ==
    /\ calls[c].pc = "done"
    /\ calls[c].op = "getWithCache"
    /\ calls[c].resp # NoResponse
    /\ \/ calls[c].resp.threw
       \/ ~calls[c].resp.parseOk
       \/ ~ok(calls[c].resp.status)

\* the call resolved with the payload of the entry it read at its start
ServedFromEntry(c) ==
    /\ calls[c].result.kind = "resolved"
    /\ calls[c].result.cached
    /\ calls[c].result.data = calls[c].cached.data

\* C3 as stated: whenever the request of getWithCache fails and localStorage
\* held an entry for the endpoint, the call resolves with the cached payload.
C3_CachedOnFailure ==
    \A c \in Calls :
        (GetFailed(c) /\ calls[c].cached.present) => ServedFromEntry(c)

\* C3 as amended: when the request of getWithCache fails, the call resolves
\* with the payload of the entry read at its start (cached: true,
\* offline: true) exactly when navigator.onLine is false and there was such
\* an entry; otherwise it rejects with the error of the request.
C3_CachedOnOfflineFailure ==
    \A c \in Calls : GetFailed(c) =>
        IF ~calls[c].onLine /\ calls[c].cached.present
        THEN ServedFromEntry(c) /\ calls[c].result.offline
        ELSE calls[c].result.kind = "rejected"

\* an expired entry served after a failed request while offline
C3_Witness ==
    \E c \in Calls :
        /\ GetFailed(c)
        /\ ~calls[c].onLine
        /\ calls[c].cached.present
        /\ now - calls[c].cached.timestamp >= DefaultTtl
        /\ calls[c].result.kind = "resolved"
        /\ calls[c].result.offline

-----------------------------------------------------------------------------
(* Properties of handleApiRequest(), under SpecSW *)

\* handleApiRequest() is entered for r in this step
Entered(r) == swReqs[r].pc = "idle" /\ swReqs'[r].pc # "idle"

\* C4 in one step: on entry, an entry for the URL written less than five
\* minutes ago is returned and fetch() is not called; with no entry, or one
\* five minutes old or older, fetch() is called.
C4_EntryStep ==
    \A r \in SWReqs : Entered(r) =>
        LET entry == apiCache[swReqs'[r].url]
        IN  IF entry.present /\ now - entry.putAt < 5 * 60 * 1000
            THEN /\ swReqs'[r].pc = "done"
                 /\ swReqs'[r].result = entry
                 /\ ~swReqs'[r].fetched
            ELSE /\ swReqs'[r].pc = "fetching"
                 /\ swReqs'[r].fetched

\* C4: handleApiRequest is cache-first with a staleness check of 5 minutes.
C4_CacheFirst == [][C4_EntryStep]_vars

\* one request served from a young entry without fetch(), and another
\* request fetching although an entry, now five minutes old, exists
C4_Witness ==
    \E r1, r2 \in SWReqs :
        /\ swReqs[r1].pc = "done"
        /\ ~swReqs[r1].fetched
        /\ swReqs[r1].result.source = "cache"
        /\ swReqs[r2].pc = "fetching"
        /\ apiCache[swReqs[r2].url].present
        /\ now - apiCache[swReqs[r2].url].putAt = 5 * 60 * 1000

\* fetch() rejects for r in this step
FetchFailed(r) ==
    swReqs[r].pc = "fetching" /\ swReqs'[r].pc = "done" /\ swReqs'[r].threw

\* C5 in one step: when fetch() rejects, the answer is the entry of the URL
\* if there is one, of any age, and else the synthesized 503 response with
\* success: false; it is always a response.
C5_FailureStep ==
    \A r \in SWReqs : FetchFailed(r) =>
        LET entry == apiCache[swReqs[r].url]
        IN  /\ swReqs'[r].result.present
            /\ entry.present => swReqs'[r].result = entry
            /\ ~entry.present =>
                  /\ swReqs'[r].result.source = "synth"
                  /\ swReqs'[r].result.status = 503
                  /\ swReqs'[r].result.body = "success: false"

\* C5: handleApiRequest fails gracefully when the network fetch throws.
C5_GracefulFailure == [][C5_FailureStep]_vars

\* after failed fetches, one request answered with an entry older than five
\* minutes and another with the synthesized 503
C5_Witness ==
    \E r1, r2 \in SWReqs :
        /\ swReqs[r1].pc = "done" /\ swReqs[r1].threw
        /\ swReqs[r1].result.source = "cache"
        /\ now - swReqs[r1].result.putAt >= 5 * 60 * 1000
        /\ swReqs[r2].pc = "done" /\ swReqs[r2].threw
        /\ swReqs[r2].result.status = 503

-----------------------------------------------------------------------------
(* Properties of retry(), under SpecRetry *)

Attempts == Len(retryCall.outcomes)      \* invocations of requestFn so far

Rejected == retryCall.pc = "done" /\ retryCall.result.kind = "rejected"

\* at most maxRetries attempts; a successful attempt is the last one and its
\* value is the value retry() resolves with
BoundedUntilSuccess ==
    /\ Attempts <= retryCall.maxRetries
    /\ \A k \in 1 .. Attempts : retryCall.outcomes[k].ok =>
          /\ k = Attempts
          /\ retryCall.pc = "done"
          /\ retryCall.result.kind = "resolved"
          /\ retryCall.result.value = retryCall.outcomes[k].value
    /\ retryCall.result.kind = "resolved" =>
          Attempts >= 1 /\ retryCall.outcomes[Attempts].ok

\* retry() rejects with the error of the last attempt it made
RejectsWithLastError ==
    /\ Attempts >= 1
    /\ retryCall.result.error = retryCall.outcomes[Attempts].error

\* C6 as stated, its final result: at most maxRetries attempts, the first
\* success is returned without a further attempt, and a rejection always
\* carries the error of the last attempt made.
C6_RetryOutcome ==
    /\ BoundedUntilSuccess
    /\ Rejected => RejectsWithLastError

\* C6 as amended: retry() terminates, makes at most maxRetries attempts and
\* returns the first success without a further attempt; when it rejects, it
\* rejects with the error of the last attempt made if maxRetries >= 1, and
\* with undefined, after no attempt at all, if maxRetries is 0.
C6_RetryTerminates ==
    /\ [](/\ BoundedUntilSuccess
          /\ Rejected =>
                IF retryCall.maxRetries >= 1 THEN RejectsWithLastError
                ELSE Attempts = 0 /\ retryCall.result.error = NoError)
    /\ (retryCall.pc # "idle" ~> retryCall.pc = "done")

\* retry() has rejected after maxRetries = 3 failed attempts
C6_Witness ==
    /\ Rejected
    /\ retryCall.maxRetries = 3
    /\ Attempts = 3
    /\ retryCall.result.error.attempt = 2

\* the failed attempts that are retryable: status 429, 5xx or none
Retryable(k) ==
    LET st == retryCall.outcomes[k].error.status
    IN  /\ ~retryCall.outcomes[k].ok
        /\ ~(st \in 400 .. 499 /\ st # 429)

\* C7: the wait after the i-th failed retryable attempt (i from 0) is
\* delayMs * 2^i, each wait is the double of the one before, and there is no
\* other wait.
C7_ExponentialBackoff ==
    /\ Len(retryCall.waits) = Cardinality({k \in 1 .. Attempts : Retryable(k)})
    /\ \A k \in 1 .. Attempts : Retryable(k) =>
          retryCall.waits[k] = retryCall.delayMs * 2 ^ (k - 1)
    /\ \A k \in 2 .. Len(retryCall.waits) :
          retryCall.waits[k] = 2 * retryCall.waits[k - 1]

\* three waits have been made: delayMs, 2 * delayMs, 4 * delayMs
C7_Witness ==
    /\ Len(retryCall.waits) = 3
    /\ retryCall.waits[3] = 4 * retryCall.delayMs

\* C8: a failure with a status in 400..499 other than 429 ends retry() at
\* once, with that error and without a wait; a failure with status 429, 5xx
\* or no status is followed by a wait and, while attempts remain, by a
\* further attempt.
C8_NoRetryOnClientError ==
    \A k \in 1 .. Attempts : ~retryCall.outcomes[k].ok =>
        IF Retryable(k)
        THEN /\ Len(retryCall.waits) >= k
             /\ (retryCall.pc = "done" /\ k = Attempts) =>
                    k = retryCall.maxRetries
        ELSE /\ k = Attempts
             /\ Rejected
             /\ retryCall.result.error = retryCall.outcomes[k].error
             /\ Len(retryCall.waits) = k - 1

\* a 429 was retried and the next attempt, failing with 404, ended retry()
C8_Witness ==
    /\ Attempts = 2
    /\ retryCall.maxRetries = 3
    /\ retryCall.outcomes[1].error.status = 429
    /\ retryCall.outcomes[2].error.status = 404
    /\ Rejected
    /\ Len(retryCall.waits) = 1

-----------------------------------------------------------------------------
(* Properties of the deferred-request queue, under SpecOffline and SpecSync *)

\* C9: a non-GET request that could not be delivered because the client was
\* offline is held as a record of the pendingRequests store until a replay
\* of it has been answered ok.
C9_OfflineWriteQueued ==
    \A w \in writes :
        \/ \E rec \in store : rec.write = w
        \/ \E rec \in delivered : rec.write = w

Ids(S) == {rec.id : rec \in S}

\* C10: a run of syncPendingRequests replays the records that were in the
\* store when it started, all of them, in the order of their timestamps,
\* going on after a replay that failed; a record is absent from the store
\* if and only if a replay of it was answered ok.
C10_ReplayAll ==
    /\ \A run \in SyncRuns :
          LET q == runs[run].requests
              sent == runs[run].sent
          IN  /\ Range(q) = runs[run].atStart
              /\ Len(q) = Cardinality(runs[run].atStart)
              /\ \A i, j \in 1 .. Len(q) :
                    i < j => q[i].timestamp <= q[j].timestamp
              /\ Len(sent) <= Len(q)
              /\ \A k \in 1 .. Len(sent) : sent[k] = q[k].id
              /\ runs[run].pc = "done" => Len(sent) = Len(q)
    /\ Ids(store) = (1 .. (nextId - 1)) \ Ids(delivered)

\* a finished run that replayed the later-queued record of lower timestamp
\* first, kept the record whose replay failed and deleted the other
C10_Witness ==
    \E run \in SyncRuns :
        /\ runs[run].pc = "done"
        /\ Len(runs[run].sent) = 2
        /\ runs[run].requests[1].id > runs[run].requests[2].id
        /\ runs[run].requests[1] \in store
        /\ runs[run].requests[2] \in delivered
        /\ runs[run].requests[2] \notin store

-----------------------------------------------------------------------------
(* Properties of handlePageNavigation(), under SpecNav *)

\* C11 in one step: on entry fetch() is called and nothing is answered yet;
\* when fetch() resolves, its response is the answer; when fetch() rejects
\* and the cache holds a copy of the request, that copy is the answer.
C11_NavigationStep ==
    \A n \in NavReqs :
        /\ (navReqs[n].pc = "idle" /\ navReqs'[n].pc # "idle") =>
              /\ navReqs'[n].pc = "fetching"
              /\ navReqs'[n].result = NoPage
        /\ (navReqs[n].pc = "fetching" /\ navReqs'[n].pc = "done") =>
              IF navReqs'[n].threw
              THEN pageCache[navReqs[n].url].present =>
                      navReqs'[n].result = pageCache[navReqs[n].url]
              ELSE /\ navReqs'[n].result.source = "network"
                   /\ navReqs'[n].result.body = pageCache'[navReqs[n].url].body
        /\ navReqs'[n].pc = "done" =>
              (navReqs'[n].result.source # "network" => navReqs'[n].threw)

\* C11: handlePageNavigation is network-first with cache fallback.
C11_NetworkFirst == [][C11_NavigationStep]_vars

\* a navigation to a cached page answered from the network, and another one,
\* whose fetch failed, answered with the copy cached by an earlier navigation
C11_Witness ==
    \E n1, n2 \in NavReqs :
        /\ navReqs[n1].pc = "done" /\ ~navReqs[n1].threw
        /\ navReqs[n1].url \in Precached
        /\ navReqs[n1].result.source = "network"
        /\ navReqs[n2].pc = "done" /\ navReqs[n2].threw
        /\ navReqs[n2].url \notin Precached
        /\ navReqs[n2].result.source = "cache"
        /\ navReqs[n2].result = pageCache[navReqs[n2].url]

-----------------------------------------------------------------------------
(* Properties of the rate-limit warning, under SpecLimit *)

\* the response carries an X-RateLimit-Remaining header with a value below 10
BelowThreshold(resp) ==
    resp.remaining # NoRemaining /\ resp.remaining < WarnBelow

\* C14: for every response received by request() that carries an
\* X-RateLimit-Remaining header with a value below 10 the rate-limit warning
\* is raised exactly once; it is never raised when the header is absent or
\* its value is 10 or more.
C14_WarningBelowThreshold ==
    \A c \in Calls : Answered(c) =>
        /\ BelowThreshold(calls[c].resp) => calls[c].warned = 1
        /\ ~BelowThreshold(calls[c].resp) => calls[c].warned = 0

-----------------------------------------------------------------------------
(* Properties of getWithCache(), under SpecCache *)

\* getWithCache(): call c starts in this step
GetStarts(c) ==
    /\ calls[c].pc = "idle"
    /\ calls'[c].pc # "idle"
    /\ calls'[c].op = "getWithCache"

\* getWithCache(): the GET of call c succeeds in this step
GetSucceeds(c) ==
    /\ calls[c].pc = "fetching"
    /\ calls[c].op = "getWithCache"
    /\ calls'[c].pc = "done"
    /\ ~calls'[c].resp.threw
    /\ calls'[c].resp.parseOk
    /\ ok(calls'[c].resp.status)

\* C16: when the stored entry's age is below ttl, getWithCache returns the
\* stored payload with cached: true and makes no network request; when the
\* entry is absent or its age is ttl or more it performs a GET and, on
\* success, overwrites the entry with the new payload and the current time
\* and returns cached: false.
C16_CacheStep ==
    \A c \in Calls :
        /\ GetStarts(c) =>
              LET entry == localStorage[calls'[c].endpoint]
              IN  IF entry.present /\ now - entry.timestamp < DefaultTtl
                  THEN /\ calls'[c].pc = "done"
                       /\ calls'[c].result.kind = "resolved"
                       /\ calls'[c].result.cached
                       /\ calls'[c].result.data = entry.data
                       /\ calls'[c].fetches = 0
                  ELSE /\ calls'[c].pc = "fetching"
                       /\ calls'[c].method = "GET"
                       /\ calls'[c].fetches = 1
        /\ GetSucceeds(c) =>
              /\ localStorage'[calls[c].endpoint] =
                     [present |-> TRUE, data |-> parseBody(calls'[c].resp),
                      timestamp |-> now]
              /\ calls'[c].result.kind = "resolved"
              /\ calls'[c].result.data = parseBody(calls'[c].resp)
              /\ ~calls'[c].result.cached

C16_FreshElseFetch == [][C16_CacheStep]_vars

-----------------------------------------------------------------------------
(* Properties of failing requests, under SpecFailure *)

\* C17: request() makes exactly one fetch per call, never more, and
\* rejects when that fetch throws; getWithCache that found no entry for the
\* endpoint rejects with the error request() raised.
C17_FailurePropagates ==
    \A c \in Calls :
        /\ calls[c].fetches <= 1
        /\ (calls[c].pc = "done" /\ calls[c].op = "request") =>
              /\ calls[c].fetches = 1
              /\ calls[c].resp.threw => calls[c].result.kind = "rejected"
        /\ (GetFailed(c) /\ calls[c].resp.threw /\ ~calls[c].cached.present) =>
              /\ calls[c].fetches = 1
              /\ calls[c].result.kind = "rejected"
              /\ calls[c].result.message \in
                     {"Failed to fetch",
                      "Network connection lost. Please check your internet connection."}
              /\ \A d \in Calls :
                     (calls[d].pc = "done" /\ calls[d].op = "request"
                        /\ calls[d].resp.threw
                        /\ calls[d].onLine = calls[c].onLine) =>
                     calls[c].result = calls[d].result

\* a request() and a getWithCache() without entry whose fetches both threw
C17_Witness ==
    \E c, d \in Calls :
        /\ calls[c].pc = "done" /\ calls[c].op = "request"
        /\ calls[c].resp.threw /\ calls[c].result.kind = "rejected"
        /\ GetFailed(d) /\ calls[d].resp.threw /\ ~calls[d].cached.present
        /\ calls[d].result = calls[c].result

-----------------------------------------------------------------------------
(* Properties of the request ledger, under SpecLedger *)

\* C18: every ledger entry has status pending, completed or failed; an
\* entry is pending only while its request() call has not settled; once
\* the call has settled the entry, if still present, is completed exactly
\* when request() resolved and failed exactly when it rejected, a rejection
\* for a non-ok HTTP status included.
C18_LedgerStatus ==
    \A c \in Calls : calls[c].entry.present =>
        /\ calls[c].entry.status \in {"pending", "completed", "failed"}
        /\ calls[c].entry.status = "pending" => calls[c].pc = "fetching"
        /\ calls[c].pc = "done" =>
              /\ calls[c].entry.status = "completed"
                    <=> calls[c].result.kind = "resolved"
              /\ calls[c].entry.status = "failed"
                    <=> calls[c].result.kind = "rejected"

\* more than an hour after the client started: a resolved call, and a call
\* rejected for a non-ok status, both still in the ledger
C18_Witness ==
    \E c, d \in Calls :
        /\ calls[c].pc = "done" /\ calls[c].entry.present
        /\ calls[c].result.kind = "resolved"
        /\ calls[c].entry.status = "completed"
        /\ calls[d].pc = "done" /\ calls[d].entry.present
        /\ ~calls[d].resp.threw /\ ~ok(calls[d].resp.status)
        /\ calls[d].resp.parseOk
        /\ calls[d].entry.status = "failed"
        /\ now > oneHour

-----------------------------------------------------------------------------
(* Properties of rejections for a non-ok status, under SpecRequest *)

\* C20: whenever request() rejects because the server answered with a
\* non-ok status, the error carries that status and the parsed body as
\* data, whatever navigator.onLine is at that moment.
C20_ErrorCarriesStatus ==
    \A c \in Calls :
        (Answered(c) /\ calls[c].resp.parseOk /\ ~ok(calls[c].resp.status)) =>
            /\ calls[c].result.kind = "rejected"
            /\ calls[c].result.status = calls[c].resp.status
            /\ calls[c].result.data = parseBody(calls[c].resp)

-----------------------------------------------------------------------------
(* Properties of the client's headers and interceptors, under SpecClient *)

\* C12: at every point after construction (with or without config.token)
\* and after any setToken calls, the default headers contain
\* 'Authorization: Bearer <token>' if and only if the token is non-null.
C12_AuthorizationIffToken ==
    IF token # Null
    THEN defaultHeaders["Authorization"] = bearer(token)
    ELSE defaultHeaders["Authorization"] = Absent

RECURSIVE throughRequest(_, _)
\* the config after the request interceptors of list, first to last
throughRequest(list, config) ==
    IF list = <<>> THEN config
    ELSE throughRequest(Tail(list), requestInterceptor(Head(list), config))

RECURSIVE throughResponse(_, _)
\* the response after the response interceptors of list, first to last
throughResponse(list, response) ==
    IF list = <<>> THEN response
    ELSE throughResponse(Tail(list), responseInterceptor(Head(list), response))

\* C13: request() applies the request interceptors in registration order,
\* each on the config returned by the previous one, and calls fetch with
\* the config returned by the last; the response interceptors are applied
\* in registration order to the fetch result, all of them before the body
\* is parsed and the status is mapped to an error.
C13_InterceptorStep ==
    /\ (send.pc # "fetching" /\ send'.pc = "fetching") =>
          /\ send'.fetched
          /\ send'.sent.via = interceptors.request
          /\ send'.sent =
                throughRequest(interceptors.request,
                               requestConfig(send'.defaults, send'.options))
    /\ (send.pc = "configuring" /\ send'.pc = "configuring" /\ send' # send) =>
          /\ ~send'.fetched
          /\ send'.config =
                requestInterceptor(
                    interceptors.request[Len(send.config.via) + 1], send.config)
    /\ (send.pc \in {"fetching", "receiving"} /\ send'.pc = "done"
          /\ send'.response.status # NoStatus /\ send'.parsed # NoReply) =>
          /\ send'.parsed =
                throughResponse(interceptors.response,
                    [status |-> send'.response.status, via |-> <<>>])
          /\ send'.kind = IF ok(send'.parsed.status) THEN "resolved"
                          ELSE "rejected"
    /\ (send.pc = "receiving" /\ send'.pc = "receiving") =>
          /\ send'.parsed = NoReply
          /\ send'.kind = "none"

C13_InterceptorOrder == [][C13_InterceptorStep]_vars

\* a call that went through two different interceptors of each kind
C13_Witness ==
    /\ send.pc = "done"
    /\ send.sent.via = <<"a", "b">>
    /\ send.sent.headers["X-Trace"] = "b"
    /\ send.parsed.via = <<"b", "a">>
    /\ send.kind = "rejected"

\* C19: the headers sent by request() are the default headers overlaid
\* with options.headers: a default header that options.headers does not
\* name is sent unchanged.
C19_DefaultsKept ==
    send.fetched =>
        \A h \in DefaultNames :
            (send.defaults[h] # Absent /\ send.options.headers[h] = Absent) =>
                send.sent.headers[h] = send.defaults[h]

-----------------------------------------------------------------------------
(* Properties of the request queue, under SpecQueue *)

Settled(i) == promises[i].state \in {"resolved", "rejected"}

\* C15: requests submitted through enqueue() are dispatched one at a time
\* in FIFO order: at most one processor loop is active, a queued request is
\* not started until the previous one has settled and the 100 ms delay
\* after it has elapsed, and each promise settles with the outcome of its
\* own request.
C15_OneAtATimeInOrder ==
    /\ Cardinality({l \in Calls : loops[l].pc # "off"}) <= 1
    /\ Cardinality({l \in Calls : loops[l].pc = "requesting"
                                    /\ calls[l].pc = "fetching"}) <= 1
    /\ \A j \in 1 .. Len(started) : started[j] = j
    /\ \A j \in 2 .. Len(started) :
          Settled(started[j - 1]) /\ started[j - 1] \in delayed
    /\ \A i \in Items :
          /\ Settled(i) => (\E j \in 1 .. Len(started) : started[j] = i)
                           /\ promises[i].result = served[i]
                           /\ promises[i].state = served[i].kind
          /\ ~Settled(i) => served[i] = NoResult

\* the second request is in flight after the first resolved and its delay
\* elapsed, while the third waits in the queue
C15_Witness ==
    /\ \E l \in Calls : /\ loops[l].pc = "requesting"
                         /\ loops[l].item = 2
                         /\ calls[l].pc = "fetching"
    /\ queue = <<3>>
    /\ promises[1].state = "resolved"
    /\ promises[2].state = "pending"
    /\ 1 \in delayed

-----------------------------------------------------------------------------
(* Properties of the API cache's writes, under SpecSW *)

\* handleApiRequest(): invocation r gets its network response in this step
Answers(r) ==
    /\ swReqs[r].pc = "fetching"
    /\ swReqs'[r].pc = "done"
    /\ ~swReqs'[r].threw

\* C21: handleApiRequest writes to the API cache only ok responses to GET
\* requests, each entry written carries the sw-cached-time stamp of the
\* moment the fetch was answered; a non-ok network response is returned to
\* the caller and leaves the API cache unchanged.
C21_WriteStep ==
    /\ \A u \in Urls :
          (apiCache'[u] # apiCache[u] /\ apiCache'[u].present) =>
              /\ ok(apiCache'[u].status)
              /\ dateParse(apiCache'[u].stamp) = now
              /\ \E r \in SWReqs :
                    /\ Answers(r)
                    /\ swReqs[r].url = u
                    /\ swReqs'[r].result.status = apiCache'[u].status
                    /\ swReqs'[r].result.body = apiCache'[u].body
    /\ \A r \in SWReqs :
          Answers(r) =>
              /\ swReqs'[r].result.source = "network"
              /\ IF ok(swReqs'[r].result.status)
                 THEN /\ apiCache'[swReqs[r].url].body = swReqs'[r].result.body
                      /\ apiCache'[swReqs[r].url].putAt = now
                 ELSE apiCache' = apiCache

C21_OnlyOkCached == [][C21_WriteStep]_vars

\* a 500 answer returned while the entry written by an earlier 200 answer
\* is still the cache's
C21_Witness ==
    \E r1, r2 \in SWReqs :
        /\ swReqs[r1].pc = "done" /\ ~swReqs[r1].threw
        /\ swReqs[r1].result.source = "network"
        /\ swReqs[r1].result.status = 500
        /\ swReqs[r2].pc = "done"
        /\ swReqs[r2].result.source = "network"
        /\ swReqs[r2].result.status = 200
        /\ swReqs[r1].url = swReqs[r2].url
        /\ apiCache[swReqs[r2].url].present
        /\ apiCache[swReqs[r2].url].status = 200
        /\ apiCache[swReqs[r2].url].body = swReqs[r2].result.body
        /\ dateParse(apiCache[swReqs[r2].url].stamp) > 0

-----------------------------------------------------------------------------
(* Properties of the offline page, under SpecNav *)

\* C22: after install, a navigation request that fails on the network and
\* has no cached copy is answered with the cached /offline.html page;
\* handlePageNavigation never resolves without a response.
C22_OfflinePageServed ==
    \A n \in NavReqs : navReqs[n].pc = "done" =>
        /\ navReqs[n].result.present
        /\ (navReqs[n].threw /\ navReqs[n].result.source # "cache") =>
              navReqs[n].result.source = "precache"

-----------------------------------------------------------------------------
(* Properties of the activate step, under SpecActivate *)

Current == {CACHE_NAME, API_CACHE_NAME}

\* C23: when the activate step completes, every cache whose name is
\* neither CACHE_NAME nor API_CACHE_NAME has been deleted and those two
\* are untouched; clients.claim() is called only after all the deletions
\* have finished.
C23_OldCachesDeleted ==
    /\ activation.pc # "installed" =>
          cacheNames \cap Current = activation.atStart \cap Current
    /\ activation.claimed =>
          /\ activation.pending = {}
          /\ cacheNames = activation.atStart \cap Current
    /\ activation.pc = "done" => activation.claimed

\* the step has completed over both current caches and every old one
C23_Witness ==
    /\ activation.pc = "done"
    /\ activation.claimed
    /\ activation.atStart = Current \cup OldCaches
    /\ cacheNames = Current

-----------------------------------------------------------------------------
(* Concurrent request() calls and the shared ledger, under SpecLedger *)

\* C24: the outcome of a request() call does not depend on another call:
\* the ledger entry of a call in flight is never removed by the cleanup
\* another call runs, and a call whose own fetch produced an ok, parsable
\* response resolves.
C24_CallsIndependent ==
    \A c \in Calls :
        /\ calls[c].pc = "fetching" => calls[c].entry.present
        /\ (/\ calls[c].pc = "done"
            /\ ~calls[c].resp.threw
            /\ calls[c].resp.parseOk
            /\ ok(calls[c].resp.status)) => calls[c].result.kind = "resolved"

-----------------------------------------------------------------------------
(* Progress of the queue, under SpecQueueLive *)

LoopActive == \E l \in Calls : loops[l].pc # "off"

\* C25: provided every dispatched request settles, every enqueued request
\* is eventually dispatched and its promise settled, also when it was
\* enqueued while a request or the 100 ms delay was in progress; whenever
\* the queue is non-empty isProcessingQueue is true, and the flag is false
\* again once the loop has drained the queue.
C25_QueueDrains ==
    /\ \A i \in Items :
          (promises[i].state = "pending") ~>
              (Settled(i) /\ \E j \in 1 .. Len(started) : started[j] = i)
    /\ [](queue # <<>> => isProcessingQueue)
    /\ [](isProcessingQueue <=> LoopActive)
    /\ isProcessingQueue ~> (~isProcessingQueue /\ queue = <<>>)

\* every request has been dispatched and settled, one of them with a
\* rejection, and the loop has ended
C25_Witness ==
    /\ \A i \in Items : Settled(i) /\ i \in delayed
    /\ Len(started) = MaxQueued
    /\ \E i \in Items : promises[i].state = "rejected"
    /\ \E i \in Items : promises[i].state = "resolved"
    /\ queue = <<>>
    /\ ~isProcessingQueue
    /\ ~LoopActive

-----------------------------------------------------------------------------
(* Replays across runs of syncPendingRequests(), under SpecSync *)

\* this step sends a record: the run's list of sent ids grows by one
Sends(run) == Len(runs'[run].sent) = Len(runs[run].sent) + 1

\* C26: a pending request whose replay was answered ok is never sent
\* again, by the same run, a later run or a run in progress at the same
\* time.
C26_DeliveredOnce ==
    [][\A run \in SyncRuns :
          Sends(run) =>
              runs'[run].sent[Len(runs'[run].sent)] \notin Ids(delivered)]_vars

-----------------------------------------------------------------------------
(* Properties of login() and logout(), under SpecAuth *)

\* C27: when logout() completes, whether or not the call to the logout
\* endpoint succeeded, the client holds no credential: state.token and
\* state.user are null, localStorage has no 'token' entry and the default
\* headers of the API client have no Authorization header.
C27_LogoutClears ==
    [][(logout.pc = "posting" /\ logout'.pc = "done") =>
          /\ state'.token = Null
          /\ state'.user = Null
          /\ tokenItem' = Absent
          /\ defaultHeaders'["Authorization"] = Absent]_vars

\* C28: when login() completes for a login the backend accepted, it
\* returns { success: true } and state.token, the 'token' entry of
\* localStorage and the token of the API client all equal the token the
\* backend issued in the response.
C28_LoginStoresToken ==
    [][(login.pc = "loading" /\ login'.pc = "done") =>
          /\ login'.success
          /\ state'.token = login'.issued
          /\ tokenItem' = login'.issued
          /\ token' = login'.issued
          /\ defaultHeaders'["Authorization"] = bearer(login'.issued)]_vars

-----------------------------------------------------------------------------
(* Properties of batch(), under SpecBatch *)

\* C29: batch(requests) runs the requests one after the other in input
\* order, each after the previous one has settled, and never rejects: it
\* resolves with a results array of the length and order of the input,
\* whose i-th element has success true with the result of the i-th request
\* or success false with its error; a failing request does not stop the
\* later ones.
C29_BatchInOrder ==
    LET n == Len(batch.results)
    IN  /\ ~batch.rejected
        /\ Len(batch.settled) = n
        /\ Len(batch.sent) = IF batch.pc = "requesting" THEN n + 1 ELSE n
        /\ \A i \in 1 .. Len(batch.sent) : batch.sent[i] = batch.requests[i]
        /\ \A i \in 1 .. n :
              /\ batch.results[i].value = batch.settled[i]
              /\ batch.results[i].success
                    <=> batch.settled[i].kind = "resolved"
              /\ ~batch.results[i].success
                    <=> batch.settled[i].kind = "rejected"
        /\ batch.pc = "done" => n = Len(batch.requests)
        /\ batch.pc = "requesting" =>
              /\ calls[BatchCall].pc = "fetching"
              /\ calls[BatchCall].method = batch.requests[n + 1].method
              /\ calls[BatchCall].endpoint = batch.requests[n + 1].endpoint

\* a finished batch of MaxBatch requests whose first request failed and
\* whose last request succeeded
C29_Witness ==
    /\ batch.pc = "done"
    /\ Len(batch.requests) = MaxBatch
    /\ Len(batch.results) = MaxBatch
    /\ ~batch.results[1].success
    /\ batch.results[MaxBatch].success
    /\ batch.requests[1] # batch.requests[MaxBatch]

-----------------------------------------------------------------------------
(* The waits of retry(), under SpecRetry *)

\* C30: retry() waits only between attempts: no wait follows the last of
\* the maxRetries attempts, and when all of them failed with retryable
\* errors exactly maxRetries - 1 waits have been made when retry() rejects.
C30_WaitsBetweenAttempts ==
    /\ retryCall.pc = "wait" => Attempts < retryCall.maxRetries
    /\ (/\ retryCall.pc = "done"
        /\ Rejected
        /\ Attempts = retryCall.maxRetries
        /\ \A k \in 1 .. Attempts : Retryable(k))
          => Len(retryCall.waits) = retryCall.maxRetries - 1

====
